---- MODULE Spec2Model ----
(***************************************************************************)
(* Spark deploy daemon: the deploy session of daemon/src/deploy/handler.rs *)
(* with its stages (config_loader, hooks, app_manager, database,           *)
(* health_monitor), the AppState store of common/src/lib.rs, and the       *)
(* rollback command of cli/src/main.rs, over one application directory.    *)
(*                                                                         *)
(* The application directory is {apps_root}/{repo with "/" -> "_"}; a path *)
(* inside it is the sequence of its components relative to that directory: *)
(* << >> is the directory itself, <<"versions", n>> a backup directory.    *)
(* Option<T> is a sequence of length 0 (None) or 1 (Some).                 *)
(*                                                                         *)
(* Spec        one deploy session after the other, with rollbacks between  *)
(* SpecRace    save_and_extract and rollback_app call by call, two         *)
(*             sessions of one repository and a rollback side by side      *)
(* SpecGateway gateway requests and route registrations behind the RwLock  *)
(* SpecWire    send_message / recv_message on one stream                   *)
(* SpecClient  run_deploy against the daemon's accept loop                 *)
(* SpecAccept  the accept loop of run_daemon_server and the sessions it    *)
(*             spawns, with peers that stall or fail                       *)
(* SpecLifecycle  start / stop / restart of cli/src/main.rs over AppState  *)
(* SpecFetch   download_archive: the request it sends, the answers it gets *)
(* SpecApps    sessions of two repositories stage by stage, side by side   *)
(* SpecDatabase  setup_database command by command inside a session       *)
(* SpecGatewayFair  SpecGateway with every started task going on           *)
(***************************************************************************)
EXTENDS Integers, Sequences, FiniteSets, TLC

\* ------------------------------------------------------------------ bounds
MaxSessions == 3     \* deploy sessions accepted in one run
MaxTicks == 1        \* seconds the clock can advance in one run
Epoch == 10          \* unix time at the start of a run (same digit count throughout)

\* ------------------------------------------------------------- Option<T>
None == << >>
Some(x) == << x >>
IsSome(o) == Len(o) = 1
IsNone(o) == Len(o) = 0
Unwrap(o) == o[1]
UnwrapOr(o, d) == IF IsSome(o) THEN o[1] ELSE d

\* ------------------------------------------------------------- input sets
Ports == {8080}
Domains == {"site.local"}
DeclaredHealthUrl == << "http://app.local/health", 0 >>

\* format!("http://localhost:{}", port)
LocalhostUrl(port) == << "http://localhost:", port >>

\* format!("{}/{}", app_dir, web.root.as_ref().unwrap_or(&".".to_string()))
RootPathIn(app_dir, root) == << app_dir, UnwrapOr(root, ".") >>
RootPath(root) == RootPathIn("app_dir", root)

\* The optional sections of spark.toml the deploy session reads.
RunSections == {None} \cup {Some([port |-> p]) : p \in {None} \cup {Some(q) : q \in Ports}}
WebSections == {None} \cup {Some([domain |-> d, root |-> Some("dist")]) : d \in Domains}
HealthSections == {None, Some([url |-> DeclaredHealthUrl, timeout |-> None])}
AutoHealthOpts == {None, Some(FALSE), Some(TRUE)}

Manifest(r, w, h, ah, a) ==
    [version |-> "0.1.0", build |-> a.build, run |-> r, web |-> w, health |-> h,
     isolation |-> a.isolation, database |-> a.database, hooks |-> a.hooks,
     auto_health |-> ah]

\* The provisioning sections come in profiles, so that the manifests stay
\* few: nothing declared; everything declared; an unsupported database.
NoAux == [build |-> None, hooks |-> None, database |-> None, isolation |-> None]
AuxProfiles ==
    { [build |-> Some("exit 1"),
       hooks |-> Some([pre_deploy |-> Some("pre.sh"), post_deploy |-> Some("post.sh")]),
       database |-> Some("sqlite"), isolation |-> Some("chroot")],
      [build |-> None,
       hooks |-> Some([pre_deploy |-> None, post_deploy |-> Some("post.sh")]),
       database |-> Some("oracle"), isolation |-> None] }

\* The manifests a deploy can meet: every run/health combination with
\* auto_health absent or true, auto_health = false on a run port, every
\* run/web combination, a web section for a second hostname and without a
\* document root, and the provisioning profiles on a web-only and on a
\* run-only application.
SparkFile ==
    { Manifest(r, None, h, ah, NoAux) :
        r \in RunSections, h \in HealthSections, ah \in AutoHealthOpts \ {Some(FALSE)} }
    \cup { Manifest(Some([port |-> Some(q)]), None, None, Some(FALSE), NoAux) : q \in Ports }
    \cup { Manifest(r, w, None, None, NoAux) : r \in RunSections, w \in WebSections }
    \cup { Manifest(None, Some([domain |-> "blog.local", root |-> None]), None,
                     Some(TRUE), NoAux) }
    \cup { Manifest(None, w, None, None, a) : w \in WebSections \ {None}, a \in AuxProfiles }
    \cup { Manifest(Some([port |-> Some(q)]), None, None, Some(TRUE), a) :
             q \in Ports, a \in AuxProfiles }

DefaultSparkFile ==
    [version |-> "0.1.0", build |-> None, run |-> None, web |-> None, health |-> None,
     isolation |-> None, database |-> None, hooks |-> None, auto_health |-> None]

\* spark.toml as a file: parseable into a SparkFile or not.
TomlFiles == {[valid |-> FALSE, m |-> DefaultSparkFile]}
               \cup {[valid |-> TRUE, m |-> m] : m \in SparkFile}

\* What the forge serves: bytes that unpack or not, with or without a spark.toml.
Archives == {[corrupt |-> TRUE, toml |-> None]}
              \cup {[corrupt |-> FALSE, toml |-> t] : t \in {None} \cup {Some(f) : f \in TomlFiles}}

\* ------------------------------------------------- timestamps and names
\* format!("{}", chrono::Utc::now().timestamp()): the decimal digits.
RECURSIVE Digits(_)
Digits(n) == IF n < 10 THEN << n >> ELSE Append(Digits(n \div 10), n % 10)

\* Ord on path components: byte-wise lexicographic, a proper prefix first.
RECURSIVE LexLess(_, _)
LexLess(a, b) ==
    IF Len(b) = 0 THEN FALSE
    ELSE IF Len(a) = 0 THEN TRUE
    ELSE IF Head(a) # Head(b) THEN Head(a) < Head(b)
    ELSE LexLess(Tail(a), Tail(b))

AppDirPath == << >>
VersionPath(name) == << "versions", name >>

VARIABLES
    clock,        \* chrono::Utc::now().timestamp()
    appDir,       \* the application directory exists
    tree,         \* Option: id of the archive last unpacked into the directory
    toml,         \* Option<TomlFile>: app_dir/spark.toml
    current,      \* Option<Path>: target of the app_dir/current symlink
    versionsDir,  \* app_dir/versions exists
    versions,     \* function: name of each entry of versions/ -> its tree (Option)
    stateFile,    \* Option<AppState>: app_dir/state.toml
    static_routes,\* GatewayRoutes.static_routes: function hostname -> path
    spawned,      \* number of processes spawned so far (the next pid is spawned + 1)
    probes,       \* health probes scheduled with tokio::spawn and not yet run
    lastProbe,    \* outcome of the last probe that ran (it is only logged)
    sessions,     \* deploy sessions accepted so far
    pc,           \* position of the running deploy session
    msg,          \* its DeployMessage (the field the pipeline reads: auto_health)
    config,       \* Option<SparkFile>: its loaded manifest
    started,      \* Option<pid>: result of start_application
    sent,         \* framed responses written to its socket
    trace,        \* stages the session has executed, each with its outcome
    routesBefore, \* static_routes when the session was accepted
    succ,         \* sessions that ended with the success response
    clean,        \* so far only fault-free deploy sessions have run
    lastRollback, \* outcome of the last rollback, if no deploy was accepted since
    \* -- concurrent sessions on one application directory (SpecRace)
    deployers,    \* per connection task: its position inside save_and_extract
    rollbacker,   \* the `spark rollback` process: its position inside rollback_app
    tarball,      \* Option: content of app_dir/{app_name}.tar.gz
    raced,        \* sessions started so far
    rolled,       \* rollbacks started so far
    \* -- the HTTP gateway and the route registrations (SpecGateway)
    lock,         \* the RwLock around GatewayRoutes: readers and writer holding it
    requests,     \* per gateway request task: its position inside handle_request
    registrars,   \* per deploy session: its position around static_routes.insert
    lastReg,      \* hostname -> path of the most recent registration of it
    \* -- one framed stream (SpecWire)
    wire,         \* bytes written to the stream and not yet read
    wireEnd,      \* the writing end: open, closed after its last frame, or severed
    framesSent,   \* payloads passed to send_message, in order
    received,     \* results of the recv_message calls, in order
    \* -- the deploy client against the daemon's listener (SpecClient)
    client,       \* run_deploy: its position and what it decided
    listener,     \* run_daemon_server: what the accept loop did with the connection
    \* -- the accept loop and the connections it is given (SpecAccept)
    acceptLoop,   \* run_daemon_server's loop: where it is and with which connection
    backlog,      \* connections established and not yet returned by accept()
    conns,        \* per connection: the peer's behaviour and how far it has got
    \* -- spark start / stop / restart (SpecLifecycle)
    lifecycle,    \* manage_process: its position, the record it loaded, what it did
    \* -- the Fetch stage of one session (SpecFetch)
    fetch,        \* download_archive: the message, the request built, the answer
    \* -- sessions of two different applications side by side (SpecApps)
    apps,         \* per application directory: its files and its deploy session
    tarballs,     \* archive path -> Option: the {app_name}.tar.gz files on disk
    \* -- database provisioning inside one session (SpecDatabase)
    db            \* setup_database: the section, the commands run, the outcome

fsvars == << appDir, tree, toml, current, versionsDir, versions, stateFile >>
sessvars == << pc, msg, config, started, sent, trace, routesBefore >>
vars == << clock, appDir, tree, toml, current, versionsDir, versions, stateFile,
           static_routes, spawned, probes, lastProbe, sessions, pc, msg, config,
           started, sent, trace, routesBefore, succ, clean, lastRollback,
           deployers, rollbacker, tarball, raced, rolled,
           lock, requests, registrars, lastReg,
           wire, wireEnd, framesSent, received, client, listener,
           acceptLoop, backlog, conns, lifecycle, fetch, apps, tarballs, db >>
racevars == << deployers, rollbacker, tarball, raced, rolled >>
gwvars == << lock, requests, registrars, lastReg >>
wirevars == << wire, wireEnd, framesSent, received >>
clientvars == << client, listener >>
acceptvars == << acceptLoop, backlog, conns >>
lifevars == << lifecycle >>
fetchvars == << fetch >>
appsvars == << apps, tarballs >>
dbvars == << db >>
\* What the deploy pipeline of one session leaves alone.
aux == << racevars, gwvars, wirevars, clientvars, acceptvars, lifevars, fetchvars, appsvars, dbvars >>


\* ------------------------------------------------------------ filesystem
\* The directory state save_and_extract and rollback_app work on.
Fs == [appDir |-> appDir, tree |-> tree, toml |-> toml, current |-> current,
       versionsDir |-> versionsDir, versions |-> versions]

\* A path names an existing directory.
DirExists(d, p) ==
    IF p = AppDirPath THEN d.appDir
    ELSE d.versionsDir /\ p[2] \in DOMAIN d.versions

\* std::path::Path::new(&current_link).exists(): follows the symlink, so it
\* is false for an absent link and for a link whose target is gone.
CurrentExists(d) == IsSome(d.current) /\ DirExists(d, Unwrap(d.current))

\* std::fs::create_dir_all(&backup_dir): creates versions/ and the entry,
\* empty, and succeeds when they are already there.
CreateBackupDir(d, name) ==
    [d EXCEPT !.versionsDir = TRUE,
              !.versions = IF name \in DOMAIN d.versions THEN d.versions
                           ELSE [n \in DOMAIN d.versions \cup {name} |->
                                   IF n = name THEN None ELSE d.versions[n]]]

\* std::fs::rename(current_path, &backup_dir), rename(2) on a directory:
\* EINVAL when the destination lies inside the source, ENOENT when the source
\* is gone, a no-op when both are the same directory, ENOTEMPTY when the
\* destination holds entries, otherwise the source takes the place of the
\* (empty or absent) destination.
Rename(d, src, name) ==
    IF src = AppDirPath THEN [ok |-> FALSE, fs |-> d]
    ELSE IF ~DirExists(d, src) THEN [ok |-> FALSE, fs |-> d]
    ELSE IF src[2] = name THEN [ok |-> TRUE, fs |-> d]
    ELSE IF name \in DOMAIN d.versions /\ IsSome(d.versions[name])
         THEN [ok |-> FALSE, fs |-> d]
    ELSE [ok |-> TRUE,
          fs |-> [d EXCEPT !.versions =
                    [n \in (DOMAIN d.versions \ {src[2]}) \cup {name} |->
                       IF n = name THEN d.versions[src[2]] ELSE d.versions[n]]]]

\* "Backup current version for rollback".
BackupCurrent(d, now) ==
    IF CurrentExists(d)
    THEN LET name == Digits(now)
             made == CreateBackupDir(d, name)
         IN  \* read_link succeeds on every symlink that exists() accepted
             Rename(made, Unwrap(d.current), name)
    ELSE [ok |-> TRUE, fs |-> d]

\* archive.unpack(app_dir): entries of the archive overwrite files of the
\* same name and leave every other file of the directory in place.
Disarchive(d, archive) ==
    IF archive.corrupt THEN [ok |-> FALSE, fs |-> d]
    ELSE [ok |-> TRUE,
          fs |-> [d EXCEPT !.tree = Some(archive.id),
                           !.toml = IF IsSome(archive.toml) THEN archive.toml ELSE @]]

\* "Create current symlink": remove_file if exists(), then symlink(2), which
\* fails with EEXIST when a link (a dangling one) is still there.
ReplaceCurrent(d) ==
    LET removed == IF CurrentExists(d) THEN [d EXCEPT !.current = None] ELSE d
    IN  IF IsSome(removed.current) THEN [ok |-> FALSE, fs |-> removed]
        ELSE [ok |-> TRUE, fs |-> [removed EXCEPT !.current = Some(AppDirPath)]]

SaveAndExtract(d, now, archive) ==
    LET made == [d EXCEPT !.appDir = TRUE]
        b == BackupCurrent(made, now)
        x == Disarchive(b.fs, archive)
    IN  IF ~b.ok THEN b
        ELSE IF ~x.ok THEN x
        ELSE ReplaceCurrent(x.fs)

\* backups.sort_by_key(|e| e.path()); backups.last()
LatestBackup(vs) ==
    CHOOSE n \in DOMAIN vs : \A o \in DOMAIN vs : o = n \/ LexLess(o, n)

\* rollback_app: [result, current]
RollbackAppMovesBackup(d) ==
    IF ~(d.appDir /\ d.versionsDir) THEN [result |-> "err_read_dir", fs |-> d]
    ELSE IF DOMAIN d.versions = {} THEN [result |-> "no_backups", fs |-> d]
    ELSE LET latest == LatestBackup(d.versions)
         IN  [result |-> "ok",
              fs |-> [d EXCEPT !.current = Some(AppDirPath),
                               !.tree = d.versions[latest],
                               !.versions = [n \in DOMAIN d.versions \ {latest} |->
                                               d.versions[n]]]]
RollbackApp(d) ==
    IF ~(d.appDir /\ d.versionsDir) THEN [result |-> "err_read_dir", fs |-> d]
    ELSE IF DOMAIN d.versions = {} THEN [result |-> "no_backups", fs |-> d]
    ELSE LET removed == IF CurrentExists(d) THEN [d EXCEPT !.current = None] ELSE d
         IN  IF IsSome(removed.current) THEN [result |-> "err_symlink", fs |-> removed]
             ELSE [result |-> "ok",
                   fs |-> [removed EXCEPT
                             !.current = Some(VersionPath(LatestBackup(d.versions)))]]

StoreFs(d) ==
    /\ appDir' = d.appDir
    /\ tree' = d.tree
    /\ toml' = d.toml
    /\ current' = d.current
    /\ versionsDir' = d.versionsDir
    /\ versions' = d.versions


\* -------------------------------------------------------- deploy session
\* The text handle_deploy_request passes to send_error for each stage.
ErrorText(stage) ==
    CASE stage = "fetch" -> "Download failed"
      [] stage = "save" -> "Save failed"
      [] stage = "configure" -> "Config load failed"
      [] stage = "launch" -> "Start failed"

\* send_error: format!("❌ Error: {}", error), one frame.
ErrorMessage(text) == << "Error: ", text >>
SendErrorDropped(out, stage) == out
SendError(out, stage) == Append(out, ErrorMessage(ErrorText(stage)))

\* send_response(&mut socket, &format!("Deployed to {}", app_dir))
SuccessMessage == << "Deployed to ", "app_dir" >>
SendResponse(out) == Append(out, SuccessMessage)

\* The `return;` that follows each send_error: the session is over.
AbortFallsThrough(next) == next
AbortStillPersists(next) == "persist"
Abort(next) == "done"

\* hooks::run_pre_deploy_hooks / run_post_deploy_hooks return (): whatever
\* the hook's exit status, the handler goes on with the next stage.
AfterHookFailureAborts(status, next) == IF status = "fail" THEN "done" ELSE next
AfterHook(status, next) == next

\* database::setup_database's Err is logged and dropped.
AfterDatabaseResponds(result, next) == "respond"
AfterDatabase(result, next) == next

\* check_health's Err is logged with error!(), Ok with info!(): state.toml
\* is what it was.
AfterProbeMarksFailed(outcome, file) ==
    IF outcome = "failed" /\ IsSome(file)
    THEN Some([Unwrap(file) EXCEPT !.status = "failed"])
    ELSE file
AfterProbe(outcome, file) == file

\* save_app_state's Err is logged and dropped.
AfterPersist(result, next) == next

\* "Auto-add health check if requested (CLI flag or TOML option) and not present"
ShouldAutoHealthFlagOnly(m, c) == m.auto_health
ShouldAutoHealth(m, c) == m.auto_health \/ UnwrapOr(c.auto_health, FALSE)

\* config.run.as_ref().and_then(|r| r.port)
RunPort(c) == IF IsSome(c.run) THEN Unwrap(c.run).port ELSE None

AutoHealth(m, c) ==
    IF IsNone(c.health) /\ ShouldAutoHealth(m, c) /\ IsSome(RunPort(c))
    THEN [c EXCEPT !.health =
            Some([url |-> LocalhostUrl(Unwrap(RunPort(c))), timeout |-> Some(30)])]
    ELSE c

\* start_application: `if let Some(web) .. else if let Some(run) .. else`
LaunchModeRunFirst(c) ==
    IF IsSome(c.run) THEN "run"
    ELSE IF IsSome(c.web) THEN "web"
    ELSE "none"
LaunchMode(c) ==
    IF IsSome(c.web) THEN "web"
    ELSE IF IsSome(c.run) THEN "run"
    ELSE "none"

\* static_routes.insert(web.domain.clone(), root_path)
RouteInsertIfAbsent(routes, host, path) ==
    [h \in DOMAIN routes \cup {host} |-> IF h \in DOMAIN routes THEN routes[h] ELSE path]
RouteInsertReplacesTable(routes, host, path) == [h \in {host} |-> path]
RouteInsert(routes, host, path) ==
    [h \in DOMAIN routes \cup {host} |-> IF h = host THEN path ELSE routes[h]]

\* database::setup_database: the type dispatch; a supported type can still
\* fail in its provisioner, any other type always fails.
DatabaseOutcomes(type) ==
    IF type \in {"postgres", "mysql", "sqlite"} THEN {"ok", "fail"} ELSE {"fail"}

\* The AppState the handler builds before save_app_state.
BuildAppState(c, pid) ==
    [version |-> c.version,
     status |-> "running",
     pid |-> pid,
     port |-> RunPort(c),
     health_url |-> IF IsSome(c.health) THEN Some(Unwrap(c.health).url) ELSE None,
     isolation |-> c.isolation]

PreDeployHook(c) == IF IsSome(c.hooks) THEN Unwrap(c.hooks).pre_deploy ELSE None
PostDeployHook(c) == IF IsSome(c.hooks) THEN Unwrap(c.hooks).post_deploy ELSE None

\* if let Some(url) = &config.health.as_ref().map(|h| h.url.clone())
HasHealthUrlAlways(c) == TRUE
HasHealthUrl(c) == IsSome(c.health)

Log(stage, outcome) == trace' = Append(trace, << stage, outcome >>)

\* tokio::spawn per accepted connection, and one task per gateway request:
\* two of each run side by side.
Tasks == {1, 2}

\* The connections made to the daemon's port in one run.
MaxConns == 3
Conns == 1..MaxConns

\* A connection task that is not inside save_and_extract.
IdleDeployer ==
    [pc |-> "idle", archive |-> None, name |-> None, target |-> None, outcome |-> "none"]
\* No `spark rollback` is running.
IdleRollbacker == [pc |-> "idle", latest |-> None, outcome |-> "none"]
\* A gateway task with no request in hand.
IdleRequest == [pc |-> "idle", header |-> << >>, hostname |-> "", response |-> None]
\* A deploy session that is not at its route registration.
IdleRegistrar == [pc |-> "idle", domain |-> "", path |-> << >>, prev |-> None]
\* run_deploy has not started; the accept loop is waiting.
IdleClient ==
    [pc |-> "idle", host |-> << >>, use_tls |-> FALSE, transport |-> "none",
     verify |-> None, requestSent |-> FALSE, result |-> "none", response |-> None,
     returned |-> "none"]
IdleListener == [pc |-> "listening", got |-> "none", env |-> None, cert |-> None]

\* The loop is at listener.accept().
AwaitingAccept == [pc |-> "accept", conn |-> None]
\* A connection nobody has made yet.
NoConn ==
    [pc |-> "none", behaviour |-> "none", stalled |-> FALSE, result |-> "none",
     before |-> {}]

\* No `spark start|stop|restart` is running.
IdleLifecycle ==
    [pc |-> "idle", action |-> "none", loaded |-> None, state |-> None,
     signalled |-> << >>, written |-> None, result |-> "none", last |-> None]

\* No session is in its Fetch stage.
IdleFetch ==
    [pc |-> "idle", msg |-> None, request |-> None, status |-> None, out |-> << >>,
     next |-> "none", dirs |-> {}]

\* The application directories of two repositories, acme/site and
\* acme/blog, and the hostname each one's manifest serves.
Apps == {"acme_site", "acme_blog"}
DomainOf == [a \in Apps |-> IF a = "acme_site" THEN "site.local" ELSE "blog.local"]

\* format!("{}/{}.tar.gz", app_dir, app_name)
ArchivePathShared(a) == << "apps", "archive.tar.gz" >>
ArchivePath(a) == << a, << a, ".tar.gz" >> >>

\* A directory nobody has deployed to.
EmptyDir ==
    [appDir |-> FALSE, tree |-> None, toml |-> None, current |-> None,
     versionsDir |-> FALSE, versions |-> << >>]
\* An application no session is deploying.
IdleDb == [pc |-> "idle", section |-> None, preseedFile |-> FALSE, ran |-> << >>,
           launch |-> "none", result |-> "none", saved |-> None, sent |-> << >>]
IdleApp ==
    [pc |-> "idle", fs |-> EmptyDir, stateFile |-> None, archive |-> None, now |-> None,
     start |-> None, persisted |-> None, sent |-> << >>, deploys |-> 0]

Init ==
    /\ clock = Epoch
    /\ appDir = FALSE
    /\ tree = None
    /\ toml = None
    /\ current = None
    /\ versionsDir = FALSE
    /\ versions = << >>
    /\ stateFile = None
    /\ static_routes = << >>
    /\ spawned = 0
    /\ probes = 0
    /\ lastProbe = "none"
    /\ sessions = 0
    /\ pc = "idle"
    /\ msg = [auto_health |-> FALSE]
    /\ config = None
    /\ started = None
    /\ sent = << >>
    /\ trace = << >>
    /\ routesBefore = << >>
    /\ succ = 0
    /\ clean = TRUE
    /\ lastRollback = "none"
    /\ deployers = [t \in Tasks |-> IdleDeployer]
    /\ rollbacker = IdleRollbacker
    /\ tarball = None
    /\ raced = 0
    /\ rolled = 0
    /\ lock = [readers |-> 0, writer |-> FALSE, queue |-> << >>]
    /\ requests = [t \in Tasks |-> IdleRequest]
    /\ registrars = [t \in Tasks |-> IdleRegistrar]
    /\ lastReg = << >>
    /\ wire = << >>
    /\ wireEnd = "open"
    /\ framesSent = << >>
    /\ received = << >>
    /\ client = IdleClient
    /\ listener = IdleListener
    /\ acceptLoop = AwaitingAccept
    /\ backlog = << >>
    /\ conns = [c \in Conns |-> NoConn]
    /\ lifecycle = IdleLifecycle
    /\ fetch = IdleFetch
    /\ apps = [a \in Apps |-> IdleApp]
    /\ tarballs = [p \in {ArchivePath(a) : a \in Apps} |-> None]
    /\ db = IdleDb

\* run_daemon_server: accept a connection and start its session.
Accept ==
    /\ pc = "idle"
    /\ sessions < MaxSessions
    /\ sessions' = sessions + 1
    /\ pc' = "receive"
    /\ routesBefore' = static_routes
    /\ lastRollback' = "none"
    /\ UNCHANGED << aux, clock, fsvars, static_routes, spawned, probes, lastProbe, msg,
                    config, started, sent, trace, succ, clean >>

\* read_deploy_message: a truncated frame or a payload that is no JSON
\* DeployMessage ends the session without a response.
ReadDeployMessage ==
    /\ pc = "receive"
    /\ \E frame \in {"ok", "truncated", "bad_json"}, ah \in BOOLEAN :
         /\ Log("receive", frame)
         /\ IF frame = "ok"
            THEN /\ msg' = [auto_health |-> ah]
                 /\ pc' = "fetch"
                 /\ clean' = clean
            ELSE /\ msg' = msg
                 /\ pc' = "done"
                 /\ clean' = FALSE
    /\ UNCHANGED << aux, clock, fsvars, static_routes, spawned, probes, lastProbe, sessions,
                    config, started, sent, routesBefore, succ, lastRollback >>

\* download_archive: any transport error or non-2xx status is a failure.
DownloadArchive ==
    /\ pc = "fetch"
    /\ \E ok \in BOOLEAN :
         /\ Log("fetch", IF ok THEN "ok" ELSE "fail")
         /\ IF ok
            THEN /\ pc' = "save"
                 /\ UNCHANGED << sent, clean >>
            ELSE /\ sent' = SendError(sent, "fetch")
                 /\ pc' = Abort("save")
                 /\ clean' = FALSE
    /\ UNCHANGED << aux, clock, fsvars, static_routes, spawned, probes, lastProbe, sessions,
                    msg, config, started, routesBefore, succ, lastRollback >>

\* save_and_extract: the archive the forge served is read here.
SaveAndExtractStage ==
    /\ pc = "save"
    /\ \E a \in Archives :
         LET r == SaveAndExtract(Fs, clock, [id |-> sessions, corrupt |-> a.corrupt,
                                             toml |-> a.toml])
         IN  /\ StoreFs(r.fs)
             /\ Log("save", IF r.ok THEN "ok" ELSE "fail")
             /\ clean' = (clean /\ ~a.corrupt /\ IsSome(a.toml) /\ Unwrap(a.toml).valid)
             /\ IF r.ok
                THEN /\ pc' = "configure"
                     /\ sent' = sent
                ELSE /\ sent' = SendError(sent, "save")
                     /\ pc' = Abort("configure")
    /\ UNCHANGED << aux, clock, stateFile, static_routes, spawned, probes, lastProbe, sessions,
                    msg, config, started, routesBefore, succ, lastRollback >>

\* config_loader::load_spark_config, then the auto-health synthesis.
Configure ==
    /\ pc = "configure"
    /\ IF IsSome(toml) /\ Unwrap(toml).valid
       THEN /\ config' = Some(AutoHealth(msg, Unwrap(toml).m))
            /\ Log("configure", "ok")
            /\ pc' = "pre_hook"
            /\ sent' = sent
       ELSE /\ config' = config
            /\ Log("configure", "fail")
            /\ sent' = SendError(sent, "configure")
            /\ pc' = Abort("pre_hook")
    /\ UNCHANGED << aux, clock, fsvars, static_routes, spawned, probes, lastProbe, sessions,
                    msg, started, routesBefore, succ, clean, lastRollback >>

\* hooks::run_pre_deploy_hooks
RunPreDeployHooks ==
    /\ pc = "pre_hook"
    /\ IsSome(config)
    /\ \E status \in IF IsSome(PreDeployHook(Unwrap(config))) THEN {"ok", "fail"}
                     ELSE {"skip"} :
         /\ Log("pre_hook", status)
         /\ pc' = AfterHook(status, "launch")
    /\ UNCHANGED << aux, clock, fsvars, static_routes, spawned, probes, lastProbe, sessions,
                    msg, config, started, sent, routesBefore, succ, clean, lastRollback >>

\* app_manager::start_application
StartApplication ==
    /\ pc = "launch"
    /\ IsSome(config)
    /\ LET c == Unwrap(config)
           mode == LaunchMode(c)
       IN  \/ /\ mode = "web"
              /\ static_routes' = RouteInsert(static_routes, Unwrap(c.web).domain,
                                              RootPath(Unwrap(c.web).root))
              /\ Log("route", Unwrap(c.web).domain)
              /\ started' = None
              /\ pc' = "database"
              /\ UNCHANGED << spawned, sent, clean >>
           \/ /\ mode = "run"
              /\ \E ok \in BOOLEAN :
                   IF ok
                   THEN /\ spawned' = spawned + 1
                        /\ started' = Some(spawned + 1)
                        /\ Log("spawn", "ok")
                        /\ pc' = "database"
                        /\ UNCHANGED << sent, clean >>
                   ELSE /\ Log("spawn", "fail")
                        /\ sent' = SendError(sent, "launch")
                        /\ pc' = Abort("database")
                        /\ clean' = FALSE
                        /\ UNCHANGED << spawned, started >>
              /\ UNCHANGED static_routes
           \/ /\ mode = "none"
              /\ Log("launch", "nothing")
              /\ started' = None
              /\ pc' = "database"
              /\ UNCHANGED << static_routes, spawned, sent, clean >>
    /\ UNCHANGED << aux, clock, fsvars, probes, lastProbe, sessions, msg, config,
                    routesBefore, succ, lastRollback >>

\* database::setup_database, when a database section is declared
SetupDatabase ==
    /\ pc = "database"
    /\ IsSome(config)
    /\ \E result \in IF IsSome(Unwrap(config).database)
                     THEN DatabaseOutcomes(Unwrap(Unwrap(config).database))
                     ELSE {"skip"} :
         /\ Log("database", result)
         /\ pc' = AfterDatabase(result, "persist")
    /\ UNCHANGED << aux, clock, fsvars, static_routes, spawned, probes, lastProbe, sessions,
                    msg, config, started, sent, routesBefore, succ, clean, lastRollback >>

\* save_app_state(&app_dir, &state): fs::write can fail
PersistState ==
    /\ pc = "persist"
    /\ IsSome(config)
    /\ \E result \in {"ok", "fail"} :
         /\ stateFile' = IF result = "ok"
                         THEN Some(BuildAppState(Unwrap(config), started))
                         ELSE stateFile
         /\ Log("persist", result)
         /\ clean' = (clean /\ result = "ok")
         /\ pc' = AfterPersist(result, "monitor")
    /\ UNCHANGED << aux, clock, appDir, tree, toml, current, versionsDir, versions,
                    static_routes, spawned, probes, lastProbe, sessions, msg, config,
                    started, sent, routesBefore, succ, lastRollback >>

\* health_monitor::start_health_monitor: tokio::spawn of one delayed probe
StartHealthMonitor ==
    /\ pc = "monitor"
    /\ IsSome(config)
    /\ IF HasHealthUrl(Unwrap(config))
       THEN /\ probes' = probes + 1
            /\ Log("monitor", "scheduled")
       ELSE /\ probes' = probes
            /\ Log("monitor", "skip")
    /\ pc' = "post_hook"
    /\ UNCHANGED << aux, clock, fsvars, static_routes, spawned, lastProbe, sessions, msg,
                    config, started, sent, routesBefore, succ, clean, lastRollback >>

\* hooks::run_post_deploy_hooks
RunPostDeployHooks ==
    /\ pc = "post_hook"
    /\ IsSome(config)
    /\ \E status \in IF IsSome(PostDeployHook(Unwrap(config))) THEN {"ok", "fail"}
                     ELSE {"skip"} :
         /\ Log("post_hook", status)
         /\ pc' = AfterHook(status, "respond")
    /\ UNCHANGED << aux, clock, fsvars, static_routes, spawned, probes, lastProbe, sessions,
                    msg, config, started, sent, routesBefore, succ, clean, lastRollback >>

\* the success response, the last statement of handle_deploy_request
Respond ==
    /\ pc = "respond"
    /\ sent' = SendResponse(sent)
    /\ Log("respond", "ok")
    /\ succ' = succ + 1
    /\ pc' = "done"
    /\ UNCHANGED << aux, clock, fsvars, static_routes, spawned, probes, lastProbe, sessions,
                    msg, config, started, routesBefore, clean, lastRollback >>

\* handle_deploy_request returns: the socket is dropped, the task ends.
Close ==
    /\ pc = "done"
    /\ pc' = "idle"
    /\ msg' = [auto_health |-> FALSE]
    /\ config' = None
    /\ started' = None
    /\ sent' = << >>
    /\ trace' = << >>
    /\ routesBefore' = << >>
    /\ UNCHANGED << aux, clock, fsvars, static_routes, spawned, probes, lastProbe, sessions,
                    succ, clean, lastRollback >>

\* The task start_health_monitor spawned: one GET, the outcome is logged.
HealthProbe ==
    /\ probes > 0
    /\ probes' = probes - 1
    /\ \E outcome \in {"passed", "failed"} :
         /\ lastProbe' = outcome
         /\ stateFile' = AfterProbe(outcome, stateFile)
    /\ UNCHANGED << aux, clock, appDir, tree, toml, current, versionsDir, versions,
                    static_routes, spawned, sessions, sessvars, succ, clean, lastRollback >>

\* `spark rollback <app>` (rollback_app), run between deploy sessions: it
\* touches only `current`, which a session reads and writes in its save
\* stage alone.
Rollback ==
    /\ pc = "idle"
    /\ LET r == RollbackApp(Fs)
       IN  /\ StoreFs(r.fs)
           /\ lastRollback' = r.result
    /\ clean' = FALSE
    /\ UNCHANGED << aux, clock, stateFile, static_routes, spawned, probes, lastProbe,
                    sessions, sessvars, succ >>

\* A second passes.
Tick ==
    /\ pc = "idle"
    /\ clock < Epoch + MaxTicks
    /\ clock' = clock + 1
    /\ UNCHANGED << aux, fsvars, static_routes, spawned, probes, lastProbe, sessions,
                    sessvars, succ, clean, lastRollback >>

Next ==
    \/ Accept
    \/ ReadDeployMessage
    \/ DownloadArchive
    \/ SaveAndExtractStage
    \/ Configure
    \/ RunPreDeployHooks
    \/ StartApplication
    \/ SetupDatabase
    \/ PersistState
    \/ StartHealthMonitor
    \/ RunPostDeployHooks
    \/ Respond
    \/ Close
    \/ HealthProbe
    \/ Rollback
    \/ Tick

Spec == Init /\ [][Next]_vars


\* =================================================== concurrent sessions
\* save_and_extract and rollback_app one system call at a time, run by two
\* connection tasks of the same repository and one rollback process: every
\* call reads or writes the directory as the others have left it.

MaxRaceDeploys == 2  \* sessions of the repository started in one run
MaxRollbacks == 1    \* rollbacks started in one run

\* What the forge serves to these sessions (their manifest plays no part).
RaceArchives == {a \in Archives : IsNone(a.toml)}

\* run_daemon_server spawns a task per connection and handle_deploy_request
\* takes no lock: a session enters save_and_extract whatever the others do.
MayEnterExclusive(t) == \A o \in Tasks \ {t} : deployers[o].pc = "idle"
MayEnter(t) == TRUE

\* rollback_app's value at its caller: `?` propagates the I/O errors, the
\* empty list is logged and followed by Ok(()).
RollbackReturn(outcome) ==
    IF outcome \in {"ok", "no_backups"} THEN "Ok" ELSE "Err"

\* The task's next position, or the end of its session with `outcome`.
Goto(t, pos) == deployers' = [deployers EXCEPT ![t].pc = pos]
Finish(t, outcome) ==
    deployers' = [deployers EXCEPT ![t].pc = "idle", ![t].outcome = outcome,
                                   ![t].name = None, ![t].target = None]

\* std::fs::create_dir_all(&app_dir)
BeginSave(t) ==
    /\ deployers[t].pc = "idle"
    /\ MayEnter(t)
    /\ raced < MaxRaceDeploys
    /\ raced' = raced + 1
    /\ \E a \in RaceArchives :
         deployers' = [deployers EXCEPT ![t] =
                         [pc |-> "check_backup",
                          archive |-> Some([id |-> raced + 1, corrupt |-> a.corrupt,
                                            toml |-> a.toml]),
                          name |-> None, target |-> None, outcome |-> "none"]]
    /\ appDir' = TRUE
    /\ UNCHANGED << dbvars, appsvars, fetchvars, lifevars, acceptvars, clock, tree, toml, current, versionsDir, versions, stateFile,
                    static_routes, spawned, probes, lastProbe, sessions, sessvars, succ,
                    clean, lastRollback, rollbacker, tarball, rolled, gwvars, wirevars,
                    clientvars >>

\* if Path::new(&current_link).exists() { backup_dir = format!(.., timestamp()) }
CheckBackup(t) ==
    /\ deployers[t].pc = "check_backup"
    /\ IF CurrentExists(Fs)
       THEN deployers' = [deployers EXCEPT ![t].pc = "mkdir_versions",
                                           ![t].name = Some(Digits(clock))]
       ELSE Goto(t, "write_archive")
    /\ UNCHANGED << dbvars, appsvars, fetchvars, lifevars, acceptvars, clock, fsvars, static_routes, spawned, probes, lastProbe, sessions,
                    sessvars, succ, clean, lastRollback, rollbacker, tarball, raced,
                    rolled, gwvars, wirevars, clientvars >>

\* create_dir_all(&backup_dir), first component: mkdir app_dir/versions
MkdirVersions(t) ==
    /\ deployers[t].pc = "mkdir_versions"
    /\ versionsDir' = TRUE
    /\ Goto(t, "mkdir_backup")
    /\ UNCHANGED << dbvars, appsvars, fetchvars, lifevars, acceptvars, clock, appDir, tree, toml, current, versions, stateFile,
                    static_routes, spawned, probes, lastProbe, sessions, sessvars, succ,
                    clean, lastRollback, rollbacker, tarball, raced, rolled, gwvars,
                    wirevars, clientvars >>

\* create_dir_all(&backup_dir), second component: mkdir app_dir/versions/{ts}
MkdirBackup(t) ==
    /\ deployers[t].pc = "mkdir_backup"
    /\ StoreFs(CreateBackupDir(Fs, Unwrap(deployers[t].name)))
    /\ Goto(t, "read_link")
    /\ UNCHANGED << dbvars, appsvars, fetchvars, lifevars, acceptvars, clock, stateFile, static_routes, spawned, probes, lastProbe,
                    sessions, sessvars, succ, clean, lastRollback, rollbacker, tarball,
                    raced, rolled, gwvars, wirevars, clientvars >>

\* if let Ok(current_path) = std::fs::read_link(&current_link)
ReadLink(t) ==
    /\ deployers[t].pc = "read_link"
    /\ IF IsSome(current)
       THEN deployers' = [deployers EXCEPT ![t].pc = "rename", ![t].target = current]
       ELSE Goto(t, "write_archive")
    /\ UNCHANGED << dbvars, appsvars, fetchvars, lifevars, acceptvars, clock, fsvars, static_routes, spawned, probes, lastProbe, sessions,
                    sessvars, succ, clean, lastRollback, rollbacker, tarball, raced,
                    rolled, gwvars, wirevars, clientvars >>

\* std::fs::rename(current_path, &backup_dir)?
RenameCurrent(t) ==
    /\ deployers[t].pc = "rename"
    /\ LET r == Rename(Fs, Unwrap(deployers[t].target), Unwrap(deployers[t].name))
       IN  /\ StoreFs(r.fs)
           /\ IF r.ok THEN Goto(t, "write_archive") ELSE Finish(t, "err_rename")
    /\ UNCHANGED << dbvars, appsvars, fetchvars, lifevars, acceptvars, clock, stateFile, static_routes, spawned, probes, lastProbe,
                    sessions, sessvars, succ, clean, lastRollback, rollbacker, tarball,
                    raced, rolled, gwvars, wirevars, clientvars >>

\* File::create(&archive_path)?; file.write_all(data)?
WriteArchive(t) ==
    /\ deployers[t].pc = "write_archive"
    /\ tarball' = deployers[t].archive
    /\ Goto(t, "unpack")
    /\ UNCHANGED << dbvars, appsvars, fetchvars, lifevars, acceptvars, clock, fsvars, static_routes, spawned, probes, lastProbe, sessions,
                    sessvars, succ, clean, lastRollback, rollbacker, raced, rolled,
                    gwvars, wirevars, clientvars >>

\* File::open(&archive_path)?; archive.unpack(app_dir)?: the file holds what
\* the last writer put there.
Unpack(t) ==
    /\ deployers[t].pc = "unpack"
    /\ IF IsNone(tarball)
       THEN /\ Finish(t, "err_open")
            /\ UNCHANGED << appDir, tree, toml, current, versionsDir, versions >>
       ELSE LET r == Disarchive(Fs, Unwrap(tarball))
            IN  /\ StoreFs(r.fs)
                /\ IF r.ok THEN Goto(t, "delete_archive") ELSE Finish(t, "err_unpack")
    /\ UNCHANGED << dbvars, appsvars, fetchvars, lifevars, acceptvars, clock, stateFile, static_routes, spawned, probes, lastProbe,
                    sessions, sessvars, succ, clean, lastRollback, rollbacker, tarball,
                    raced, rolled, gwvars, wirevars, clientvars >>

\* std::fs::remove_file(&archive_path)?
DeleteArchive(t) ==
    /\ deployers[t].pc = "delete_archive"
    /\ IF IsNone(tarball)
       THEN /\ Finish(t, "err_delete")
            /\ tarball' = tarball
       ELSE /\ Goto(t, "check_current")
            /\ tarball' = None
    /\ UNCHANGED << dbvars, appsvars, fetchvars, lifevars, acceptvars, clock, fsvars, static_routes, spawned, probes, lastProbe, sessions,
                    sessvars, succ, clean, lastRollback, rollbacker, raced, rolled,
                    gwvars, wirevars, clientvars >>

\* if Path::new(&current_link).exists()
CheckCurrent(t) ==
    /\ deployers[t].pc = "check_current"
    /\ Goto(t, IF CurrentExists(Fs) THEN "remove_current" ELSE "symlink")
    /\ UNCHANGED << dbvars, appsvars, fetchvars, lifevars, acceptvars, clock, fsvars, static_routes, spawned, probes, lastProbe, sessions,
                    sessvars, succ, clean, lastRollback, rollbacker, tarball, raced,
                    rolled, gwvars, wirevars, clientvars >>

\* std::fs::remove_file(&current_link)?
RemoveCurrent(t) ==
    /\ deployers[t].pc = "remove_current"
    /\ IF IsNone(current)
       THEN /\ Finish(t, "err_remove")
            /\ current' = current
       ELSE /\ Goto(t, "symlink")
            /\ current' = None
    /\ UNCHANGED << dbvars, appsvars, fetchvars, lifevars, acceptvars, clock, appDir, tree, toml, versionsDir, versions, stateFile,
                    static_routes, spawned, probes, lastProbe, sessions, sessvars, succ,
                    clean, lastRollback, rollbacker, tarball, raced, rolled, gwvars,
                    wirevars, clientvars >>

\* std::os::unix::fs::symlink(&extracted_dir, &current_link)?
SymlinkCurrent(t) ==
    /\ deployers[t].pc = "symlink"
    /\ IF IsSome(current)
       THEN /\ Finish(t, "err_symlink")
            /\ current' = current
       ELSE /\ Finish(t, "ok")
            /\ current' = Some(AppDirPath)
    /\ UNCHANGED << dbvars, appsvars, fetchvars, lifevars, acceptvars, clock, appDir, tree, toml, versionsDir, versions, stateFile,
                    static_routes, spawned, probes, lastProbe, sessions, sessvars, succ,
                    clean, lastRollback, rollbacker, tarball, raced, rolled, gwvars,
                    wirevars, clientvars >>

\* std::fs::read_dir(&versions_dir)?; sort_by_key; backups.last()
RollbackReadDir ==
    /\ rollbacker.pc = "idle"
    /\ rolled < MaxRollbacks
    /\ rolled' = rolled + 1
    /\ rollbacker' =
         IF ~(appDir /\ versionsDir)
         THEN [pc |-> "idle", latest |-> None, outcome |-> "err_read_dir"]
         ELSE IF DOMAIN versions = {}
         THEN [pc |-> "idle", latest |-> None, outcome |-> "no_backups"]
         ELSE [pc |-> "check_current", latest |-> Some(LatestBackup(versions)),
               outcome |-> "none"]
    /\ UNCHANGED << dbvars, appsvars, fetchvars, lifevars, acceptvars, clock, fsvars, static_routes, spawned, probes, lastProbe, sessions,
                    sessvars, succ, clean, lastRollback, deployers, tarball, raced,
                    gwvars, wirevars, clientvars >>

\* if Path::new(&current_link).exists()
RollbackCheckCurrent ==
    /\ rollbacker.pc = "check_current"
    /\ rollbacker' = [rollbacker EXCEPT
                        !.pc = IF CurrentExists(Fs) THEN "remove_current" ELSE "symlink"]
    /\ UNCHANGED << dbvars, appsvars, fetchvars, lifevars, acceptvars, clock, fsvars, static_routes, spawned, probes, lastProbe, sessions,
                    sessvars, succ, clean, lastRollback, deployers, tarball, raced,
                    rolled, gwvars, wirevars, clientvars >>

\* std::fs::remove_file(&current_link)?
RollbackRemoveCurrent ==
    /\ rollbacker.pc = "remove_current"
    /\ IF IsNone(current)
       THEN /\ rollbacker' = [rollbacker EXCEPT !.pc = "idle", !.outcome = "err_remove"]
            /\ current' = current
       ELSE /\ rollbacker' = [rollbacker EXCEPT !.pc = "symlink"]
            /\ current' = None
    /\ UNCHANGED << dbvars, appsvars, fetchvars, lifevars, acceptvars, clock, appDir, tree, toml, versionsDir, versions, stateFile,
                    static_routes, spawned, probes, lastProbe, sessions, sessvars, succ,
                    clean, lastRollback, deployers, tarball, raced, rolled, gwvars,
                    wirevars, clientvars >>

\* std::os::unix::fs::symlink(latest.path(), &current_link)?
RollbackSymlink ==
    /\ rollbacker.pc = "symlink"
    /\ IF IsSome(current)
       THEN /\ rollbacker' = [rollbacker EXCEPT !.pc = "idle", !.outcome = "err_symlink"]
            /\ current' = current
       ELSE /\ rollbacker' = [rollbacker EXCEPT !.pc = "idle", !.outcome = "ok"]
            /\ current' = Some(VersionPath(Unwrap(rollbacker.latest)))
    /\ UNCHANGED << dbvars, appsvars, fetchvars, lifevars, acceptvars, clock, appDir, tree, toml, versionsDir, versions, stateFile,
                    static_routes, spawned, probes, lastProbe, sessions, sessvars, succ,
                    clean, lastRollback, deployers, tarball, raced, rolled, gwvars,
                    wirevars, clientvars >>

NextRace ==
    \/ \E t \in Tasks : BeginSave(t)
    \/ \E t \in Tasks : CheckBackup(t)
    \/ \E t \in Tasks : MkdirVersions(t)
    \/ \E t \in Tasks : MkdirBackup(t)
    \/ \E t \in Tasks : ReadLink(t)
    \/ \E t \in Tasks : RenameCurrent(t)
    \/ \E t \in Tasks : WriteArchive(t)
    \/ \E t \in Tasks : Unpack(t)
    \/ \E t \in Tasks : DeleteArchive(t)
    \/ \E t \in Tasks : CheckCurrent(t)
    \/ \E t \in Tasks : RemoveCurrent(t)
    \/ \E t \in Tasks : SymlinkCurrent(t)
    \/ RollbackReadDir
    \/ RollbackCheckCurrent
    \/ RollbackRemoveCurrent
    \/ RollbackSymlink
    \/ Tick

SpecRace == Init /\ [][NextRace]_vars


\* ============================================================== gateway
\* handle_request of the HTTP gateway and the route registration of
\* start_application, as tasks that share GatewayRoutes behind one
\* tokio::sync::RwLock.

\* GatewayRoutes::default(); no code inserts into proxy_routes.
proxy_routes == << >>

\* A Host header value, cut at its colons: "site.local:9999" is
\* << "site.local", ":", "9999" >>.
HostHeaders ==
    { << "site.local" >>, << "site.local", ":", "9999" >>, << "blog.local", ":", "80" >>,
      << "other.local" >>, << ":", "80" >> }

\* if let Some(idx) = hostname.find(':') { hostname = hostname[..idx] }
RECURSIVE BeforeColon(_)
BeforeColon(h) ==
    IF Len(h) = 0 \/ Head(h) = ":" THEN << >>
    ELSE << Head(h) >> \o BeforeColon(Tail(h))
StripPort(h) == LET b == BeforeColon(h) IN IF Len(b) = 0 THEN "" ELSE b[1]

\* The three answers of handle_request.
ServeStatic(dir) == [kind |-> "static", dir |-> Some(dir), port |-> None]
ProxyStub(port) == [kind |-> "not_implemented", dir |-> None, port |-> Some(port)]
NotConfigured == [kind |-> "not_found", dir |-> None, port |-> None]

\* static_routes.get(&hostname), then proxy_routes.get(&hostname), then 404
HandleRequestProxyFirst(static, proxy, hostname) ==
    IF hostname \in DOMAIN proxy THEN ProxyStub(proxy[hostname])
    ELSE IF hostname \in DOMAIN static THEN ServeStatic(static[hostname])
    ELSE NotConfigured
HandleRequest(static, proxy, hostname) ==
    IF hostname \in DOMAIN static THEN ServeStatic(static[hostname])
    ELSE IF hostname \in DOMAIN proxy THEN ProxyStub(proxy[hostname])
    ELSE NotConfigured

\* tokio::sync::RwLock is fair (write-preferring): the tasks awaiting the
\* lock are served first in, first out, so a read() called after a write()
\* that is still waiting waits behind it.
GrantedInAnyOrder(l, waiter) == TRUE
Granted(l, waiter) == Len(l.queue) > 0 /\ Head(l.queue) = waiter
\* the waiter leaves the queue with the lock in hand
Leave(queue, waiter) == SelectSeq(queue, LAMBDA w : w # waiter)

\* RwLock::read(): granted unless a writer holds the lock.
CanRead(l) == ~l.writer
\* RwLock::write(): granted when nobody holds the lock.
CanWriteAmongReaders(l) == ~l.writer
CanWrite(l) == l.readers = 0 /\ ~l.writer

\* The web deploys that reach start_application: the application directory
\* of the repository and its [web] section.
WebDeploys ==
    { [app_dir |-> "acme_site", domain |-> "site.local", root |-> Some("dist")],
      [app_dir |-> "acme_blog", domain |-> "site.local", root |-> None],
      [app_dir |-> "acme_blog", domain |-> "blog.local", root |-> Some("dist")] }

\* A request arrives: the Host extractor, then the port suffix is cut.
RequestArrive(t) ==
    /\ requests[t].pc = "idle"
    /\ \E h \in HostHeaders :
         requests' = [requests EXCEPT ![t] =
                        [pc |-> "wait_read", header |-> h, hostname |-> StripPort(h),
                         response |-> None]]
    /\ lock' = [lock EXCEPT !.queue = Append(@, << "read", t >>)]
    /\ UNCHANGED << dbvars, appsvars, fetchvars, lifevars, acceptvars, clock, fsvars, static_routes, spawned, probes, lastProbe, sessions,
                    sessvars, succ, clean, lastRollback, racevars, registrars,
                    lastReg, wirevars, clientvars >>

\* let state = state.read().await
RequestAcquireRead(t) ==
    /\ requests[t].pc = "wait_read"
    /\ CanRead(lock)
    /\ Granted(lock, << "read", t >>)
    /\ lock' = [lock EXCEPT !.readers = @ + 1, !.queue = Leave(@, << "read", t >>)]
    /\ requests' = [requests EXCEPT ![t].pc = "lookup"]
    /\ UNCHANGED << dbvars, appsvars, fetchvars, lifevars, acceptvars, clock, fsvars, static_routes, spawned, probes, lastProbe, sessions,
                    sessvars, succ, clean, lastRollback, racevars, registrars, lastReg, wirevars, clientvars >>

\* the two get() calls and the response they select
RequestLookup(t) ==
    /\ requests[t].pc = "lookup"
    /\ requests' = [requests EXCEPT
                      ![t].pc = "respond",
                      ![t].response =
                         Some(HandleRequest(static_routes, proxy_routes, requests[t].hostname))]
    /\ UNCHANGED << dbvars, appsvars, fetchvars, lifevars, acceptvars, clock, fsvars, static_routes, spawned, probes, lastProbe, sessions,
                    sessvars, succ, clean, lastRollback, racevars, lock, registrars,
                    lastReg, wirevars, clientvars >>

\* handle_request returns: the read guard is dropped
RequestReturn(t) ==
    /\ requests[t].pc = "respond"
    /\ lock' = [lock EXCEPT !.readers = @ - 1]
    /\ requests' = [requests EXCEPT ![t] = IdleRequest]
    /\ UNCHANGED << dbvars, appsvars, fetchvars, lifevars, acceptvars, clock, fsvars, static_routes, spawned, probes, lastProbe, sessions,
                    sessvars, succ, clean, lastRollback, racevars, registrars, lastReg, wirevars, clientvars >>

\* start_application reached with a [web] section: root_path is formatted
RegisterBegin(t) ==
    /\ registrars[t].pc = "idle"
    /\ \E w \in WebDeploys :
         registrars' = [registrars EXCEPT ![t] =
                          [pc |-> "wait_write", domain |-> w.domain,
                           path |-> RootPathIn(w.app_dir, w.root), prev |-> None]]
    /\ lock' = [lock EXCEPT !.queue = Append(@, << "write", t >>)]
    /\ UNCHANGED << dbvars, appsvars, fetchvars, lifevars, acceptvars, clock, fsvars, static_routes, spawned, probes, lastProbe, sessions,
                    sessvars, succ, clean, lastRollback, racevars, requests,
                    lastReg, wirevars, clientvars >>

\* gateway.write().await
RegisterAcquireWrite(t) ==
    /\ registrars[t].pc = "wait_write"
    /\ CanWrite(lock)
    /\ Granted(lock, << "write", t >>)
    /\ lock' = [lock EXCEPT !.writer = TRUE, !.queue = Leave(@, << "write", t >>)]
    /\ registrars' = [registrars EXCEPT ![t].pc = "insert"]
    /\ UNCHANGED << dbvars, appsvars, fetchvars, lifevars, acceptvars, clock, fsvars, static_routes, spawned, probes, lastProbe, sessions,
                    sessvars, succ, clean, lastRollback, racevars, requests, lastReg, wirevars, clientvars >>

\* .static_routes.insert(web.domain.clone(), root_path)
RegisterInsert(t) ==
    /\ registrars[t].pc = "insert"
    /\ LET d == registrars[t].domain
           path == registrars[t].path
       IN  /\ static_routes' = RouteInsert(static_routes, d, path)
           /\ lastReg' = [h \in DOMAIN lastReg \cup {d} |->
                            IF h = d THEN path ELSE lastReg[h]]
           /\ registrars' = [registrars EXCEPT
                               ![t].pc = "release",
                               ![t].prev = IF d \in DOMAIN static_routes
                                           THEN Some(static_routes[d]) ELSE None]
    /\ UNCHANGED << dbvars, appsvars, fetchvars, lifevars, acceptvars, clock, fsvars, spawned, probes, lastProbe, sessions, sessvars, succ,
                    clean, lastRollback, racevars, lock, requests, wirevars,
                    clientvars >>

\* the end of the statement: the write guard is dropped
RegisterRelease(t) ==
    /\ registrars[t].pc = "release"
    /\ lock' = [lock EXCEPT !.writer = FALSE]
    /\ registrars' = [registrars EXCEPT ![t] = IdleRegistrar]
    /\ UNCHANGED << dbvars, appsvars, fetchvars, lifevars, acceptvars, clock, fsvars, static_routes, spawned, probes, lastProbe, sessions,
                    sessvars, succ, clean, lastRollback, racevars, requests, lastReg, wirevars, clientvars >>

NextGateway ==
    \/ \E t \in Tasks : RequestArrive(t)
    \/ \E t \in Tasks : RequestAcquireRead(t)
    \/ \E t \in Tasks : RequestLookup(t)
    \/ \E t \in Tasks : RequestReturn(t)
    \/ \E t \in Tasks : RegisterBegin(t)
    \/ \E t \in Tasks : RegisterAcquireWrite(t)
    \/ \E t \in Tasks : RegisterInsert(t)
    \/ \E t \in Tasks : RegisterRelease(t)

SpecGateway == Init /\ [][NextGateway]_vars

\* Every task that can go on does: a request that holds or can take the
\* read lock finishes, a registration that can take the write lock takes
\* it and finishes. Nothing obliges a request or a deploy to arrive.
GatewayFairness ==
    \A t \in Tasks :
        /\ WF_vars(RequestAcquireRead(t))
        /\ WF_vars(RequestLookup(t))
        /\ WF_vars(RequestReturn(t))
        /\ WF_vars(RegisterAcquireWrite(t))
        /\ WF_vars(RegisterInsert(t))
        /\ WF_vars(RegisterRelease(t))

SpecGatewayFair == Init /\ [][NextGateway]_vars /\ GatewayFairness


\* ================================================================ framing
\* send_message and recv_message on one direction of a stream: the bytes
\* written and not yet read, and the end of the writing side.

MaxFrames == 2       \* messages sent on the stream in one run
MaxPayloadLen == 2   \* bytes in a payload

Bytes == {0, 7}
Payloads == UNION {[1..n -> Bytes] : n \in 0..MaxPayloadLen}

\* (data.len() as u32).to_be_bytes(); the lengths met here are far below 2^32
ToLeBytes(n) == << n % 256, (n \div 256) % 256, (n \div 65536) % 256, (n \div 16777216) % 256 >>
ToBeBytes(n) == << (n \div 16777216) % 256, (n \div 65536) % 256, (n \div 256) % 256, n % 256 >>

\* u32::from_be_bytes(len_buf) as usize
FromBeBytes(b) == ((b[1] * 256 + b[2]) * 256 + b[3]) * 256 + b[4]

\* send_message: write_all(&len) then write_all(data)
Frame(data) == ToBeBytes(Len(data)) \o data

\* recv_message on the bytes that are (or will be) readable: read_exact
\* returns when the buffer is full, fails with UnexpectedEof when the stream
\* ends first, and waits otherwise. `left` is what the failed read consumed.
RecvMessageShortRead(stream, end) ==
    IF Len(stream) < 4
    THEN IF end = "open" THEN [status |-> "pending", payload |-> << >>, left |-> 0, rest |-> stream]
         ELSE [status |-> "err", payload |-> << >>, left |-> Len(stream), rest |-> << >>]
    ELSE LET len == FromBeBytes(SubSeq(stream, 1, 4))
             body == SubSeq(stream, 5, Len(stream))
         IN  IF Len(body) >= len
             THEN [status |-> "ok", payload |-> SubSeq(body, 1, len), left |-> 0,
                   rest |-> SubSeq(body, len + 1, Len(body))]
             ELSE IF end = "open"
             THEN [status |-> "pending", payload |-> << >>, left |-> 0, rest |-> stream]
             ELSE [status |-> "ok", payload |-> body, left |-> 0, rest |-> << >>]
RecvMessage(stream, end) ==
    IF Len(stream) < 4
    THEN IF end = "open" THEN [status |-> "pending", payload |-> << >>, left |-> 0, rest |-> stream]
         ELSE [status |-> "err", payload |-> << >>, left |-> Len(stream), rest |-> << >>]
    ELSE LET len == FromBeBytes(SubSeq(stream, 1, 4))
             body == SubSeq(stream, 5, Len(stream))
         IN  IF Len(body) >= len
             THEN [status |-> "ok", payload |-> SubSeq(body, 1, len), left |-> 0,
                   rest |-> SubSeq(body, len + 1, Len(body))]
             ELSE IF end = "open"
             THEN [status |-> "pending", payload |-> << >>, left |-> 0, rest |-> stream]
             ELSE [status |-> "err", payload |-> << >>, left |-> Len(stream), rest |-> << >>]

\* A peer calls send_message(stream, data).
SendMessage ==
    /\ wireEnd = "open"
    /\ Len(framesSent) < MaxFrames
    /\ \E data \in Payloads :
         /\ wire' = wire \o Frame(data)
         /\ framesSent' = Append(framesSent, data)
    /\ UNCHANGED << dbvars, appsvars, fetchvars, lifevars, acceptvars, clock, fsvars, static_routes, spawned, probes, lastProbe, sessions,
                    sessvars, succ, clean, lastRollback, racevars, gwvars, wireEnd,
                    received, clientvars >>

\* The sender drops the stream after its last frame.
CloseStream ==
    /\ wireEnd = "open"
    /\ wireEnd' = "closed"
    /\ UNCHANGED << dbvars, appsvars, fetchvars, lifevars, acceptvars, clock, fsvars, static_routes, spawned, probes, lastProbe, sessions,
                    sessvars, succ, clean, lastRollback, racevars, gwvars, wire,
                    framesSent, received, clientvars >>

\* The connection is lost: of the bytes in flight only the first k arrive.
SeverStream ==
    /\ wireEnd = "open"
    /\ \E k \in 0..(Len(wire) - 1) : wire' = SubSeq(wire, 1, k)
    /\ wireEnd' = "severed"
    /\ UNCHANGED << dbvars, appsvars, fetchvars, lifevars, acceptvars, clock, fsvars, static_routes, spawned, probes, lastProbe, sessions,
                    sessvars, succ, clean, lastRollback, racevars, gwvars, framesSent,
                    received, clientvars >>

\* The other peer calls recv_message(stream) and the call returns; after an
\* Err its caller gives the stream up.
ReceiveMessage ==
    /\ \A i \in 1..Len(received) : received[i].status = "ok"
    /\ LET r == RecvMessage(wire, wireEnd)
       IN  /\ r.status # "pending"
           /\ received' = Append(received, [status |-> r.status, payload |-> r.payload,
                                            left |-> r.left])
           /\ wire' = r.rest
    /\ UNCHANGED << dbvars, appsvars, fetchvars, lifevars, acceptvars, clock, fsvars, static_routes, spawned, probes, lastProbe, sessions,
                    sessvars, succ, clean, lastRollback, racevars, gwvars, wireEnd,
                    framesSent, clientvars >>

NextWire ==
    \/ SendMessage
    \/ CloseStream
    \/ SeverStream
    \/ ReceiveMessage

SpecWire == Init /\ [][NextWire]_vars


\* ========================================================= deploy client
\* run_deploy against the accept loop of run_daemon_server: how the client
\* classifies its target, which transport it puts the request on, and what
\* the daemon, which always starts with accept_tls, makes of it.

\* A target host as its dot-separated labels: "10.0.0.5" is
\* << "10", "0", "0", "5" >>.
Hosts ==
    { << "127", "0", "0", "1" >>, << "10", "0", "0", "5" >>, << "172", "16", "0", "1" >>,
      << "172", "31", "9", "9" >>, << "172", "15", "0", "1" >>, << "172", "32", "0", "1" >>,
      << "192", "168", "1", "1" >>, << "192", "169", "1", "1" >>, << "8", "8", "8", "8" >>,
      << "localhost" >>, << "deploy", "example", "com" >>, << "10", "example", "com" >>,
      << "localhost", "example", "com" >> }

\* host.starts_with("a.b."): the host begins with these labels and a dot
\* follows them.
StartsWith(host, labels) ==
    Len(host) > Len(labels) /\ SubSeq(host, 1, Len(labels)) = labels

\* The prefixes both copies of is_local_network list.
LocalPrefixes ==
    { << "127" >>, << "192", "168" >>, << "10" >> }
      \cup { << "172", n >> : n \in {"16", "17", "18", "19", "20", "21", "22", "23", "24",
                                       "25", "26", "27", "28", "29", "30", "31"} }

\* is_local_network of common/src/deploy/mod.rs (run_deploy's copy)
IsLocalNetwork(host) ==
    (\E p \in LocalPrefixes : StartsWith(host, p)) \/ host = << "localhost" >>

\* is_local_network of common/src/tls.rs (connect_tls's copy)
TlsIsLocalNetwork(host) ==
    (\E p \in LocalPrefixes : StartsWith(host, p)) \/ host = << "localhost" >>

\* connect_tls: NoCertVerifier for a local host, the root store otherwise.
ConnectTlsVerifies(host) == ~TlsIsLocalNetwork(host)

\* What accept_tls finds in the daemon's environment: which of the four
\* variables std::env::var returns, whether the files SPARK_TLS_CERT_FILE and
\* SPARK_TLS_KEY_FILE name can be read, whether the two files of the
\* well-known letsencrypt path can be read, and whether the material found
\* parses into a certificate and a key.
CertEnvs ==
    [cert_env : BOOLEAN, key_env : BOOLEAN,
     cert_file_env : BOOLEAN, key_file_env : BOOLEAN,
     cert_file_reads : BOOLEAN, key_file_reads : BOOLEAN,
     wk_cert_reads : BOOLEAN, wk_key_reads : BOOLEAN,
     parses : BOOLEAN]

\* load_custom_certs: the first source that yields a pair, else None
LoadCustomCertsFilesFirst(env) ==
    IF env.cert_file_env /\ env.key_file_env /\ env.cert_file_reads /\ env.key_file_reads
    THEN Some("env_files")
    ELSE IF env.cert_env /\ env.key_env THEN Some("env_inline")
    ELSE IF env.wk_cert_reads /\ env.wk_key_reads THEN Some("well_known")
    ELSE None
LoadCustomCerts(env) ==
    IF env.cert_env /\ env.key_env THEN Some("env_inline")
    ELSE IF env.cert_file_env /\ env.key_file_env
            /\ env.cert_file_reads /\ env.key_file_reads
    THEN Some("env_files")
    ELSE IF env.wk_cert_reads /\ env.wk_key_reads THEN Some("well_known")
    ELSE None

\* generate_self_signed: rcgen's certificate for "localhost"
GenerateSelfSigned == "self_signed"

\* accept_tls up to the acceptor: custom material or generate_self_signed,
\* then "No certificates found" / "No private key found" on material that
\* does not parse.
CertificateFor(env) ==
    LET custom == LoadCustomCerts(env)
    IN  IF IsNone(custom) THEN Some(GenerateSelfSigned)
        ELSE IF env.parses THEN custom
        ELSE None

\* The one frame a session answers with: send_response's text or one of
\* send_error's.
SessionResponses ==
    {SuccessMessage} \cup
    {ErrorMessage(ErrorText(stage)) : stage \in {"fetch", "save", "configure", "launch"}}

\* run_deploy: every `?` returns the Err; a received frame is logged with
\* info!("Response: {}") and the function ends with Ok(()).
RunDeployChecksResponse(result, response) ==
    IF result = "response" /\ response = Some(SuccessMessage) THEN "Ok" ELSE "Err"
RunDeploy(result, response) == IF result = "response" THEN "Ok" ELSE "Err"
Returned(rec, result, response) ==
    [rec EXCEPT !.pc = "done", !.result = result, !.response = response,
                !.returned = RunDeploy(result, response)]

\* TcpStream::connect(host:port).await?: it succeeds and accept() returns
\* the connection, or run_deploy returns the error.
ClientConnect ==
    /\ client.pc = "idle"
    /\ listener.pc = "listening"
    /\ \E h \in Hosts, ok \in BOOLEAN :
         IF ok
         THEN /\ client' = [IdleClient EXCEPT !.pc = "connected", !.host = h]
              /\ listener' = [IdleListener EXCEPT !.pc = "accepted"]
         ELSE /\ client' = Returned([IdleClient EXCEPT !.host = h], "err_connect", None)
              /\ listener' = listener
    /\ UNCHANGED << dbvars, appsvars, fetchvars, lifevars, acceptvars, clock, fsvars, static_routes, spawned, probes, lastProbe, sessions,
                    sessvars, succ, clean, lastRollback, racevars, gwvars, wirevars >>

\* accept_tls(tcp): the certificate is loaded for this connection; an Err is
\* logged as "TLS handshake failed" and the loop continues.
ListenerLoadCertificate ==
    /\ listener.pc = "accepted"
    /\ \E env \in CertEnvs :
         LET c == CertificateFor(env)
         IN  listener' = IF IsSome(c)
                         THEN [listener EXCEPT !.pc = "accept_tls", !.env = Some(env),
                                               !.cert = c]
                         ELSE [listener EXCEPT !.pc = "listening", !.env = Some(env),
                                               !.got = "handshake_failed"]
    /\ UNCHANGED << dbvars, appsvars, fetchvars, lifevars, acceptvars, clock, fsvars, static_routes, spawned, probes, lastProbe, sessions,
                    sessvars, succ, clean, lastRollback, racevars, gwvars, wirevars,
                    client >>

\* let use_tls = is_local_network(&host); then connect_tls or the bare socket
ClientChooseTransport ==
    /\ client.pc = "connected"
    /\ LET tls == IsLocalNetwork(client.host)
       IN  client' = [client EXCEPT
                        !.use_tls = tls,
                        !.pc = IF tls THEN "handshake" ELSE "send",
                        !.transport = IF tls THEN "tls" ELSE "plain",
                        !.verify = IF tls THEN Some(ConnectTlsVerifies(client.host))
                                   ELSE None]
    /\ UNCHANGED << dbvars, appsvars, fetchvars, lifevars, acceptvars, clock, fsvars, static_routes, spawned, probes, lastProbe, sessions,
                    sessvars, succ, clean, lastRollback, racevars, gwvars, wirevars,
                    listener >>

\* connector.connect(domain, stream) against acceptor.accept(stream): a
\* verifying client accepts only a certificate that chains to its roots.
TlsHandshake ==
    /\ client.pc = "handshake"
    /\ \/ /\ listener.pc = "accept_tls"
          /\ \E trusted \in BOOLEAN :
               IF trusted \/ client.verify = Some(FALSE)
               THEN /\ client' = [client EXCEPT !.pc = "send"]
                    /\ listener' = [listener EXCEPT !.pc = "session", !.got = "tls"]
               ELSE /\ client' = Returned(client, "err_tls", None)
                    /\ listener' = [listener EXCEPT !.pc = "listening",
                                                    !.got = "handshake_failed"]
       \/ /\ listener.pc = "listening"
          /\ listener.got = "handshake_failed"
          /\ client' = Returned(client, "err_tls", None)
          /\ listener' = listener
    /\ UNCHANGED << dbvars, appsvars, fetchvars, lifevars, acceptvars, clock, fsvars, static_routes, spawned, probes, lastProbe, sessions,
                    sessvars, succ, clean, lastRollback, racevars, gwvars, wirevars >>

\* send_message(&mut stream, &json) on the stream the client chose
ClientSend ==
    /\ client.pc = "send"
    /\ \/ client' = [client EXCEPT !.pc = "recv", !.requestSent = TRUE]
       \/ client' = Returned(client, "err_send", None)
    /\ UNCHANGED << dbvars, appsvars, fetchvars, lifevars, acceptvars, clock, fsvars, static_routes, spawned, probes, lastProbe, sessions,
                    sessvars, succ, clean, lastRollback, racevars, gwvars, wirevars,
                    listener >>

\* acceptor.accept on a connection whose first bytes are the request frame,
\* not a ClientHello: "TLS handshake failed", continue.
ListenerRejectsPlain ==
    /\ listener.pc = "accept_tls"
    /\ client.transport = "plain"
    /\ client.requestSent
    /\ listener' = [listener EXCEPT !.pc = "listening", !.got = "handshake_failed"]
    /\ UNCHANGED << dbvars, appsvars, fetchvars, lifevars, acceptvars, clock, fsvars, static_routes, spawned, probes, lastProbe, sessions,
                    sessvars, succ, clean, lastRollback, racevars, gwvars, wirevars,
                    client >>

\* recv_message(&mut stream): the response of the session the daemon
\* spawned, or an error on a stream that ends before a whole frame (the
\* session died, or the daemon dropped the connection)
ClientReceive ==
    /\ client.pc = "recv"
    /\ \/ /\ listener.pc = "session"
          /\ \E frame \in SessionResponses :
               client' = Returned(client, "response", Some(frame))
          /\ listener' = [listener EXCEPT !.pc = "listening"]
       \/ /\ listener.pc = "session"
          /\ client' = Returned(client, "err_closed", None)
          /\ listener' = [listener EXCEPT !.pc = "listening"]
       \/ /\ listener.pc = "listening"
          /\ listener.got = "handshake_failed"
          /\ client' = Returned(client, "err_closed", None)
          /\ listener' = listener
    /\ UNCHANGED << dbvars, appsvars, fetchvars, lifevars, acceptvars, clock, fsvars, static_routes, spawned, probes, lastProbe, sessions,
                    sessvars, succ, clean, lastRollback, racevars, gwvars, wirevars >>

\* run_deploy returns; the next invocation starts afresh
ClientExit ==
    /\ client.pc = "done"
    /\ client' = IdleClient
    /\ listener' = IdleListener
    /\ UNCHANGED << dbvars, appsvars, fetchvars, lifevars, acceptvars, clock, fsvars, static_routes, spawned, probes, lastProbe, sessions,
                    sessvars, succ, clean, lastRollback, racevars, gwvars, wirevars >>

NextClient ==
    \/ ClientConnect
    \/ ListenerLoadCertificate
    \/ ClientChooseTransport
    \/ TlsHandshake
    \/ ClientSend
    \/ ListenerRejectsPlain
    \/ ClientReceive
    \/ ClientExit

SpecClient == Init /\ [][NextClient]_vars


\* ============================================================ accept loop
\* The loop of run_daemon_server with several connections: accept(), then
\* accept_tls awaited inside the loop, then tokio::spawn of the session. A
\* session is followed through the awaits and waits it can fail or hang in.

\* What the peer of a connection does: a TLS client that sends a valid
\* DeployMessage; one that completes TCP and sends nothing; one that sends
\* bytes that are no ClientHello; a TLS client whose frame is no DeployMessage.
ClientBehaviours == {"valid", "silent", "plain", "garbage"}

\* The results of the connections that have ended.
EndedResults == {conns[c].result : c \in {o \in Conns : conns[o].pc = "closed"}}

\* acceptor.accept(stream).await: returns when the peer's first flight is
\* there; a silent peer keeps it pending (there is no timeout around it).
HandshakeReturns(b) == b # "silent"

\* Err(e) => { error!("TLS handshake failed: {}", e); continue; }
OnHandshakeErrorReturn == [pc |-> "returned", conn |-> None]
OnHandshakeError == [pc |-> "accept", conn |-> None]

\* A session's position after a step, or its end with `result`.
Advance(c, pos) == conns' = [conns EXCEPT ![c].pc = pos]
End(c, result) == conns' = [conns EXCEPT ![c].pc = "closed", ![c].result = result]
\* run_daemon_server has not returned: once it has, main returns and the
\* runtime drops the listener and every task.
DaemonUp == acceptLoop.pc # "returned"
Running(c, pos) == DaemonUp /\ conns[c].pc = pos /\ ~conns[c].stalled

\* A peer connects: the kernel queues the connection for accept().
Connect(c) ==
    /\ DaemonUp
    /\ conns[c].pc = "none"
    /\ \A o \in Conns : o < c => conns[o].pc # "none"
    /\ \E b \in ClientBehaviours :
         conns' = [conns EXCEPT ![c] = [NoConn EXCEPT !.pc = "queued", !.behaviour = b,
                                                     !.before = EndedResults]]
    /\ backlog' = Append(backlog, c)
    /\ UNCHANGED << dbvars, appsvars, fetchvars, lifevars, clock, fsvars, static_routes, spawned, probes, lastProbe, sessions,
                    sessvars, succ, clean, lastRollback, racevars, gwvars, wirevars,
                    clientvars, acceptLoop >>

\* let (tcp, addr) = listener.accept().await?  -- Ok
LoopAccept ==
    /\ acceptLoop.pc = "accept"
    /\ Len(backlog) > 0
    /\ acceptLoop' = [pc |-> "accept_tls", conn |-> Some(Head(backlog))]
    /\ backlog' = Tail(backlog)
    /\ Advance(Head(backlog), "handshake")
    /\ UNCHANGED << dbvars, appsvars, fetchvars, lifevars, clock, fsvars, static_routes, spawned, probes, lastProbe, sessions,
                    sessvars, succ, clean, lastRollback, racevars, gwvars, wirevars,
                    clientvars >>

\* listener.accept().await?  -- Err: run_daemon_server returns the error
LoopAcceptFails ==
    /\ acceptLoop.pc = "accept"
    /\ acceptLoop' = [pc |-> "returned", conn |-> None]
    /\ UNCHANGED << dbvars, appsvars, fetchvars, lifevars, clock, fsvars, static_routes, spawned, probes, lastProbe, sessions,
                    sessvars, succ, clean, lastRollback, racevars, gwvars, wirevars,
                    clientvars, backlog, conns >>

\* match accept_tls(tcp).await: Err => continue, Ok => tokio::spawn(session)
LoopAcceptTls ==
    /\ acceptLoop.pc = "accept_tls"
    /\ LET c == Unwrap(acceptLoop.conn)
       IN  /\ HandshakeReturns(conns[c].behaviour)
           /\ IF conns[c].behaviour = "plain"
              THEN /\ End(c, "handshake_failed")
                   /\ acceptLoop' = OnHandshakeError
              ELSE /\ Advance(c, "receive")
                   /\ acceptLoop' = AwaitingAccept
    /\ UNCHANGED << dbvars, appsvars, fetchvars, lifevars, clock, fsvars, static_routes, spawned, probes, lastProbe, sessions,
                    sessvars, succ, clean, lastRollback, racevars, gwvars, wirevars,
                    clientvars, backlog >>

\* read_deploy_message: Err => return without a response
SessionReceive(c) ==
    /\ Running(c, "receive")
    /\ IF conns[c].behaviour = "garbage" THEN End(c, "no_response")
       ELSE Advance(c, "fetch")
    /\ UNCHANGED << dbvars, appsvars, fetchvars, lifevars, clock, fsvars, static_routes, spawned, probes, lastProbe, sessions,
                    sessvars, succ, clean, lastRollback, racevars, gwvars, wirevars,
                    clientvars, acceptLoop, backlog >>

\* download_archive(&msg).await
SessionFetch(c) ==
    /\ Running(c, "fetch")
    /\ \E ok \in BOOLEAN : IF ok THEN Advance(c, "save") ELSE End(c, "error")
    /\ UNCHANGED << dbvars, appsvars, fetchvars, lifevars, clock, fsvars, static_routes, spawned, probes, lastProbe, sessions,
                    sessvars, succ, clean, lastRollback, racevars, gwvars, wirevars,
                    clientvars, acceptLoop, backlog >>

\* save_and_extract, load_spark_config, start_application: each Err is
\* answered with send_error and ends the session
SessionSave(c) ==
    /\ Running(c, "save")
    /\ \E ok \in BOOLEAN : IF ok THEN Advance(c, "database") ELSE End(c, "error")
    /\ UNCHANGED << dbvars, appsvars, fetchvars, lifevars, clock, fsvars, static_routes, spawned, probes, lastProbe, sessions,
                    sessvars, succ, clean, lastRollback, racevars, gwvars, wirevars,
                    clientvars, acceptLoop, backlog >>

\* hooks and database::setup_database: blocking waits, outcome only logged
SessionDatabase(c) ==
    /\ Running(c, "database")
    /\ Advance(c, "respond")
    /\ UNCHANGED << dbvars, appsvars, fetchvars, lifevars, clock, fsvars, static_routes, spawned, probes, lastProbe, sessions,
                    sessvars, succ, clean, lastRollback, racevars, gwvars, wirevars,
                    clientvars, acceptLoop, backlog >>

\* send_response: the session ends
SessionRespond(c) ==
    /\ Running(c, "respond")
    /\ End(c, "success")
    /\ UNCHANGED << dbvars, appsvars, fetchvars, lifevars, clock, fsvars, static_routes, spawned, probes, lastProbe, sessions,
                    sessvars, succ, clean, lastRollback, racevars, gwvars, wirevars,
                    clientvars, acceptLoop, backlog >>

\* The forge stops answering, or the hook or the database wait hangs: the
\* session stays where it is.
SessionStall(c) ==
    /\ DaemonUp
    /\ conns[c].pc \in {"fetch", "database"}
    /\ ~conns[c].stalled
    /\ conns' = [conns EXCEPT ![c].stalled = TRUE]
    /\ UNCHANGED << dbvars, appsvars, fetchvars, lifevars, clock, fsvars, static_routes, spawned, probes, lastProbe, sessions,
                    sessvars, succ, clean, lastRollback, racevars, gwvars, wirevars,
                    clientvars, acceptLoop, backlog >>

NextAccept ==
    \/ \E c \in Conns : Connect(c)
    \/ LoopAccept
    \/ LoopAcceptFails
    \/ LoopAcceptTls
    \/ \E c \in Conns : SessionReceive(c)
    \/ \E c \in Conns : SessionFetch(c)
    \/ \E c \in Conns : SessionSave(c)
    \/ \E c \in Conns : SessionDatabase(c)
    \/ \E c \in Conns : SessionRespond(c)
    \/ \E c \in Conns : SessionStall(c)

\* The runtime keeps polling the loop and every spawned task: each of their
\* steps is taken once it stays possible. Peers connect when they like.
AcceptFairness ==
    /\ WF_vars(LoopAccept)
    /\ WF_vars(LoopAcceptTls)
    /\ \A c \in Conns :
         /\ WF_vars(SessionReceive(c))
         /\ WF_vars(SessionFetch(c))
         /\ WF_vars(SessionSave(c))
         /\ WF_vars(SessionDatabase(c))
         /\ WF_vars(SessionRespond(c))

SpecAccept == Init /\ [][NextAccept]_vars /\ AcceptFairness


\* ============================================================== lifecycle
\* manage_process of the CLI (spark start | stop | restart) on the
\* application's state.toml, one call at a time, beside the daemon's
\* save_app_state.

Actions == {"start", "stop", "restart"}

\* Probe tasks that can be waiting at one time in one run.
MaxPendingProbes == 1

\* The pids a spawned application gets.
Pids == {4242}

\* The records handle_deploy_request persists: the manifest as loaded, and
\* a pid exactly when start_application spawned a process.
DeployedStates ==
    { BuildAppState(AutoHealth([auto_health |-> ah], m),
                    IF LaunchMode(m) = "run" THEN Some(p) ELSE None) :
        m \in SparkFile, ah \in BOOLEAN, p \in Pids }

\* load_app_state: Ok(None) when state.toml does not exist
LoadAppStateOrDefault(file) ==
    IF IsSome(file) THEN file
    ELSE Some([version |-> "0.1.0", status |-> "stopped", pid |-> None, port |-> None,
               health_url |-> None, isolation |-> None])
LoadAppState(file) == file

\* state.status = ..: the status each action writes
StatusAfterStops(action) == "stopped"
StatusAfter(action) == IF action = "stop" THEN "stopped" ELSE "running"

\* the record an arm passes to save_app_state: the one loaded, with the
\* status assigned
UpdatedClearsPid(state, action) ==
    [state EXCEPT !.status = StatusAfter(action),
                  !.pid = IF action = "stop" THEN None ELSE @]
Updated(state, action) == [state EXCEPT !.status = StatusAfter(action)]

\* `if let Some(pid) = state.pid` in the stop and restart arms
Signals(action, state) == action \in {"stop", "restart"} /\ IsSome(state.pid)

\* A deploy session of the daemon reaches save_app_state and then
\* start_health_monitor, which spawns a probe when a health URL is set.
DeployPersists ==
    /\ probes < MaxPendingProbes
    /\ \E st \in DeployedStates :
         /\ stateFile' = Some(st)
         /\ probes' = IF IsSome(st.health_url) THEN probes + 1 ELSE probes
    /\ appDir' = TRUE
    /\ lifecycle' = [lifecycle EXCEPT !.last = None]
    /\ UNCHANGED << clock, tree, toml, current, versionsDir, versions,
                    static_routes, spawned, lastProbe, sessions, sessvars, succ,
                    clean, lastRollback, racevars, gwvars, wirevars, clientvars,
                    acceptvars, fetchvars,
                    appsvars, dbvars >>

\* The user runs spark start|stop|restart <app>.
ManageProcess ==
    /\ lifecycle.pc = "idle"
    /\ \E a \in Actions :
         lifecycle' = [IdleLifecycle EXCEPT !.pc = "load", !.action = a,
                                            !.last = lifecycle.last]
    /\ UNCHANGED << clock, appDir, tree, toml, current, versionsDir, versions,
                    static_routes, spawned, probes, lastProbe, sessions, sessvars, succ,
                    clean, lastRollback, racevars, gwvars, wirevars, clientvars,
                    acceptvars, stateFile, fetchvars,
                    appsvars, dbvars >>

\* load_app_state(&app_dir)?.ok_or_else(|| anyhow!("App not found"))?, then
\* the match arm up to its first system call
LifecycleLoad ==
    /\ lifecycle.pc = "load"
    /\ LET found == LoadAppState(stateFile)
           a == lifecycle.action
       IN  IF IsNone(found)
           THEN lifecycle' = [lifecycle EXCEPT !.pc = "exit", !.result = "App not found"]
           ELSE LET st == Unwrap(found)
                IN  IF a = "start" /\ st.status = "running"
                    THEN lifecycle' = [lifecycle EXCEPT !.pc = "exit", !.loaded = found,
                                                        !.state = found, !.result = "Ok"]
                    ELSE lifecycle' = [lifecycle EXCEPT
                                         !.pc = IF Signals(a, st) THEN "kill" ELSE "save",
                                         !.loaded = found, !.state = found]
    /\ UNCHANGED << clock, appDir, tree, toml, current, versionsDir, versions,
                    static_routes, spawned, probes, lastProbe, sessions, sessvars, succ,
                    clean, lastRollback, racevars, gwvars, wirevars, clientvars,
                    acceptvars, stateFile, fetchvars,
                    appsvars, dbvars >>

\* Command::new("kill").arg(pid.to_string()).status()?: the command runs
\* (whatever its exit status) or cannot be started
LifecycleKill ==
    /\ lifecycle.pc = "kill"
    /\ \E ran \in BOOLEAN :
         lifecycle' =
           IF ran
           THEN [lifecycle EXCEPT
                   !.pc = "save",
                   !.signalled = Append(@, Unwrap(Unwrap(lifecycle.state).pid))]
           ELSE [lifecycle EXCEPT !.pc = "exit", !.result = "Err"]
    /\ UNCHANGED << clock, appDir, tree, toml, current, versionsDir, versions,
                    static_routes, spawned, probes, lastProbe, sessions, sessvars, succ,
                    clean, lastRollback, racevars, gwvars, wirevars, clientvars,
                    acceptvars, stateFile, fetchvars,
                    appsvars, dbvars >>

\* state.status = ..; save_app_state(&app_dir, &state)?
LifecycleSave ==
    /\ lifecycle.pc = "save"
    /\ LET st == Updated(Unwrap(lifecycle.state), lifecycle.action)
       IN  \E ok \in BOOLEAN :
             IF ok
             THEN /\ stateFile' = Some(st)
                  /\ lifecycle' = [lifecycle EXCEPT !.pc = "exit", !.state = Some(st),
                                                    !.written = Some(st), !.result = "Ok"]
             ELSE /\ stateFile' = stateFile
                  /\ lifecycle' = [lifecycle EXCEPT !.pc = "exit", !.state = Some(st),
                                                    !.result = "Err"]
    /\ UNCHANGED << clock, appDir, tree, toml, current, versionsDir, versions,
                    static_routes, spawned, probes, lastProbe, sessions, sessvars, succ,
                    clean, lastRollback, racevars, gwvars, wirevars, clientvars,
                    acceptvars, fetchvars, appsvars, dbvars >>

\* manage_process returns to main; `last` remembers what the call did, for
\* as long as no deploy persists a record
LifecycleExit ==
    /\ lifecycle.pc = "exit"
    /\ lifecycle' = [IdleLifecycle EXCEPT
                       !.last = Some([action |-> lifecycle.action,
                                      signalled |-> lifecycle.signalled,
                                      written |-> lifecycle.written])]
    /\ UNCHANGED << clock, appDir, tree, toml, current, versionsDir, versions,
                    static_routes, spawned, probes, lastProbe, sessions, sessvars, succ,
                    clean, lastRollback, racevars, gwvars, wirevars, clientvars,
                    acceptvars, stateFile, fetchvars,
                    appsvars, dbvars >>

NextLifecycle ==
    \/ DeployPersists
    \/ HealthProbe
    \/ Rollback
    \/ ManageProcess
    \/ LifecycleLoad
    \/ LifecycleKill
    \/ LifecycleSave
    \/ LifecycleExit

SpecLifecycle == Init /\ [][NextLifecycle]_vars


\* ================================================================== fetch
\* download_archive: the request it builds from the DeployMessage and what
\* the session makes of the forge's answer.

\* The DeployMessages a session can be sent: the sentinel, a forge URL, and
\* two forge values that only resemble the sentinel.
Forges == {"github", "https://git.example.com", "GitHub", "github.com"}
\* Repository identifiers, character by character: owner/name, with and
\* without underscores in either part, and one without a slash.
Repos ==
    { << "a", "/", "b" >>, << "a", "/", "c" >>, << "a", "_", "b" >>,
      << "a", "/", "b", "_", "c" >>, << "a", "_", "b", "/", "c" >> }
DeployMessages ==
    [repo : Repos, forge : Forges, auth_user : {None, Some("deployer")},
     auth_password : {None, Some("s3cret")}]

\* str::replace(from, to) for one-character patterns
RECURSIVE Replace(_, _, _)
Replace(str, from, to) ==
    IF str = << >> THEN << >>
    ELSE << IF Head(str) = from THEN to ELSE Head(str) >> \o Replace(Tail(str), from, to)

\* let app_name = repo.replace("/", "_"); format!("{}/{}", base_dir, app_name)
AppName(repo) == Replace(repo, "/", "_")
AppDirOf(repo) == << "base_dir", AppName(repo) >>

\* What the forge does with the request: an HTTP status, or no response.
HttpStatuses == {200, 204, 302, 401, 404, 500}
Responses == {Some(st) : st \in HttpStatuses} \cup {None}

\* let url = if msg.forge == "github" { .. } else { .. }
DownloadUrl(m) ==
    IF m.forge = "github"
    THEN << "https://api.github.com/repos/", m.repo, "/tarball/main" >>
    ELSE << m.forge, "/", m.repo, "/archive" >>

\* if let (Some(user), Some(pass)) = (&msg.auth_user, &msg.auth_password)
CredentialsWithEither(m) ==
    IF IsSome(m.auth_user) \/ IsSome(m.auth_password)
    THEN Some([scheme |-> "Basic", user |-> m.auth_user, secret |-> m.auth_password])
    ELSE None
Credentials(m) ==
    IF IsSome(m.auth_user) /\ IsSome(m.auth_password)
    THEN IF m.forge = "github"
         THEN Some([scheme |-> "Bearer", user |-> None, secret |-> m.auth_password])
         ELSE Some([scheme |-> "Basic", user |-> m.auth_user, secret |-> m.auth_password])
    ELSE None

\* client.get(&url).header("User-Agent", ..) with the credentials attached
BuildRequest(m) ==
    [method |-> "GET", url |-> DownloadUrl(m), user_agent |-> "Spark-Deploy-Agent",
     auth |-> Credentials(m)]

\* response.status().is_success(): 200..=299
IsSuccess(st) == st >= 200 /\ st <= 299

\* The session has decoded its DeployMessage.
FetchBegin ==
    /\ fetch.pc = "idle"
    /\ \E m \in DeployMessages :
         fetch' = [IdleFetch EXCEPT !.pc = "build", !.msg = Some(m), !.dirs = fetch.dirs]
    /\ UNCHANGED << clock, fsvars, static_routes, spawned, probes, lastProbe, sessions,
                    sessvars, succ, clean, lastRollback, racevars, gwvars, wirevars,
                    clientvars, acceptvars, lifevars, appsvars, dbvars >>

\* download_archive up to req.send()
FetchSend ==
    /\ fetch.pc = "build"
    /\ fetch' = [fetch EXCEPT !.pc = "sent", !.request = Some(BuildRequest(Unwrap(fetch.msg)))]
    /\ UNCHANGED << clock, fsvars, static_routes, spawned, probes, lastProbe, sessions,
                    sessvars, succ, clean, lastRollback, racevars, gwvars, wirevars,
                    clientvars, acceptvars, lifevars, appsvars, dbvars >>

\* req.send().await? and the status test; the caller answers an Err with
\* send_error("Download failed") and returns
FetchAnswer ==
    /\ fetch.pc = "sent"
    /\ \E r \in Responses :
         IF IsSome(r) /\ IsSuccess(Unwrap(r))
         THEN fetch' = [fetch EXCEPT !.pc = "ended", !.status = r, !.next = "save"]
         ELSE fetch' = [fetch EXCEPT !.pc = "ended", !.status = r,
                                     !.out = SendError(@, "fetch"),
                                     !.next = Abort("save")]
    /\ UNCHANGED << clock, fsvars, static_routes, spawned, probes, lastProbe, sessions,
                    sessvars, succ, clean, lastRollback, racevars, gwvars, wirevars,
                    clientvars, acceptvars, lifevars, appsvars, dbvars >>

\* The session leaves the stage: it is over, or it enters save_and_extract,
\* which derives the application directory from msg.repo and creates it.
FetchEnd ==
    /\ fetch.pc = "ended"
    /\ fetch' = [IdleFetch EXCEPT !.dirs =
                   IF fetch.next = "save"
                   THEN fetch.dirs \cup {[repo |-> Unwrap(fetch.msg).repo,
                                          app_dir |-> AppDirOf(Unwrap(fetch.msg).repo)]}
                   ELSE fetch.dirs]
    /\ UNCHANGED << clock, fsvars, static_routes, spawned, probes, lastProbe, sessions,
                    sessvars, succ, clean, lastRollback, racevars, gwvars, wirevars,
                    clientvars, acceptvars, lifevars, appsvars, dbvars >>

NextFetch ==
    \/ FetchBegin
    \/ FetchSend
    \/ FetchAnswer
    \/ FetchEnd

SpecFetch == Init /\ [][NextFetch]_vars


\* ======================================================= two applications
\* Deploy sessions of two repositories with different application
\* directories and different web domains, stage by stage and side by side.
\* They share the clock, the routing table and the directory the archive
\* files are written under.

MaxAppDeploys == 2   \* sessions per application in one run

\* What the forge serves for an application: a corrupt archive, one whose
\* manifest does not parse, and web manifests for the
\* application's own domain, with and without a root directory.
AppArchives(a) ==
    { [corrupt |-> TRUE, toml |-> None],
      [corrupt |-> FALSE, toml |-> Some([valid |-> FALSE, m |-> DefaultSparkFile])] }
    \cup { [corrupt |-> FALSE,
            toml |-> Some([valid |-> TRUE,
                           m |-> Manifest(None, Some([domain |-> DomainOf[a], root |-> root]),
                                          None, None, NoAux)])] :
             root \in {None, Some("dist")} }

\* The session of application a moves on, with its record changed by `ch`.
AppStep(a, rec) == apps' = [apps EXCEPT ![a] = rec]
\* send_error(..); return  -- the session is over
AppFail(rec, stage) ==
    [rec EXCEPT !.pc = "idle", !.sent = SendError(<< >>, stage), !.deploys = @ + 1]

\* The daemon accepts a deploy of the repository and has fetched its archive.
AppAccept(a) ==
    /\ apps[a].pc = "idle"
    /\ apps[a].deploys < MaxAppDeploys
    /\ \E ar \in AppArchives(a) :
         AppStep(a, [apps[a] EXCEPT
                       !.pc = "save",
                       !.archive = Some([id |-> << a, apps[a].deploys + 1 >>,
                                         corrupt |-> ar.corrupt, toml |-> ar.toml]),
                       !.now = None,
                       !.persisted = None,
                       !.sent = << >>,
                       !.start = Some([fs |-> apps[a].fs, stateFile |-> apps[a].stateFile,
                                       route |-> IF DomainOf[a] \in DOMAIN static_routes
                                                 THEN Some(static_routes[DomainOf[a]])
                                                 ELSE None])])
    /\ UNCHANGED << clock, fsvars, static_routes, spawned, probes, lastProbe, sessions,
                    sessvars, succ, clean, lastRollback, racevars, gwvars, wirevars,
                    clientvars, acceptvars, lifevars, fetchvars, tarballs, dbvars >>

\* save_and_extract up to file.write_all(data): the directory, the backup of
\* `current`, the archive file
AppWriteArchive(a) ==
    /\ apps[a].pc = "save"
    /\ LET b == BackupCurrent([apps[a].fs EXCEPT !.appDir = TRUE], clock)
           rec == [apps[a] EXCEPT !.fs = b.fs, !.now = Some(clock)]
       IN  IF b.ok
           THEN /\ AppStep(a, [rec EXCEPT !.pc = "unpack"])
                /\ tarballs' = [tarballs EXCEPT ![ArchivePath(a)] = apps[a].archive]
           ELSE /\ AppStep(a, AppFail(rec, "save"))
                /\ tarballs' = tarballs
    /\ UNCHANGED << clock, fsvars, static_routes, spawned, probes, lastProbe, sessions,
                    sessvars, succ, clean, lastRollback, racevars, gwvars, wirevars,
                    clientvars, acceptvars, lifevars, fetchvars, dbvars >>

\* disarchive_and_delete_archive, then the `current` swap
AppUnpack(a) ==
    /\ apps[a].pc = "unpack"
    /\ LET file == tarballs[ArchivePath(a)]
       IN  IF IsNone(file)
           THEN /\ AppStep(a, AppFail(apps[a], "save"))
                /\ tarballs' = tarballs
           ELSE LET x == Disarchive(apps[a].fs, Unwrap(file))
                    r == ReplaceCurrent(x.fs)
                IN  IF ~x.ok
                    THEN /\ AppStep(a, AppFail(apps[a], "save"))
                         /\ tarballs' = tarballs
                    ELSE /\ tarballs' = [tarballs EXCEPT ![ArchivePath(a)] = None]
                         /\ AppStep(a, IF r.ok
                                       THEN [apps[a] EXCEPT !.fs = r.fs, !.pc = "configure"]
                                       ELSE AppFail([apps[a] EXCEPT !.fs = r.fs], "save"))
    /\ UNCHANGED << clock, fsvars, static_routes, spawned, probes, lastProbe, sessions,
                    sessvars, succ, clean, lastRollback, racevars, gwvars, wirevars,
                    clientvars, acceptvars, lifevars, fetchvars, dbvars >>

\* config_loader::load_spark_config(&app_dir)
AppConfigure(a) ==
    /\ apps[a].pc = "configure"
    /\ LET t == apps[a].fs.toml
       IN  AppStep(a, IF IsSome(t) /\ Unwrap(t).valid
                      THEN [apps[a] EXCEPT !.pc = "launch"]
                      ELSE AppFail(apps[a], "configure"))
    /\ UNCHANGED << clock, fsvars, static_routes, spawned, probes, lastProbe, sessions,
                    sessvars, succ, clean, lastRollback, racevars, gwvars, wirevars,
                    clientvars, acceptvars, lifevars, fetchvars, tarballs, dbvars >>

\* app_manager::start_application with the manifest's [web] section
AppLaunch(a) ==
    /\ apps[a].pc = "launch"
    /\ LET m == Unwrap(apps[a].fs.toml).m
       IN  /\ LaunchMode(m) = "web"
           /\ static_routes' = RouteInsert(static_routes, Unwrap(m.web).domain,
                                           RootPathIn(a, Unwrap(m.web).root))
    /\ AppStep(a, [apps[a] EXCEPT !.pc = "persist"])
    /\ UNCHANGED << clock, fsvars, spawned, probes, lastProbe, sessions,
                    sessvars, succ, clean, lastRollback, racevars, gwvars, wirevars,
                    clientvars, acceptvars, lifevars, fetchvars, tarballs, dbvars >>

\* save_app_state(&app_dir, &state), then the success response
AppPersist(a) ==
    /\ apps[a].pc = "persist"
    /\ LET m == Unwrap(apps[a].fs.toml).m
       IN  \E ok \in BOOLEAN :
             AppStep(a, [apps[a] EXCEPT
                           !.pc = "idle",
                           !.persisted = Some(ok),
                           !.stateFile = IF ok THEN Some(BuildAppState(m, None)) ELSE @,
                           !.sent = SendResponse(<< >>),
                           !.deploys = @ + 1])
    /\ UNCHANGED << clock, fsvars, static_routes, spawned, probes, lastProbe, sessions,
                    sessvars, succ, clean, lastRollback, racevars, gwvars, wirevars,
                    clientvars, acceptvars, lifevars, fetchvars, tarballs, dbvars >>

\* A second passes while sessions are running.
AppTick ==
    /\ clock < Epoch + MaxTicks
    /\ clock' = clock + 1
    /\ UNCHANGED << fsvars, static_routes, spawned, probes, lastProbe, sessions,
                    sessvars, succ, clean, lastRollback, aux >>

NextApps ==
    \/ \E a \in Apps : AppAccept(a)
    \/ \E a \in Apps : AppWriteArchive(a)
    \/ \E a \in Apps : AppUnpack(a)
    \/ \E a \in Apps : AppConfigure(a)
    \/ \E a \in Apps : AppLaunch(a)
    \/ \E a \in Apps : AppPersist(a)
    \/ AppTick

SpecApps == Init /\ [][NextApps]_vars


\* ================================================= database provisioning
\* database::setup_database command by command, inside the deploy session
\* that calls it between start_application and save_app_state.

DbTypes == {"postgres", "mysql", "sqlite", "oracle", "Postgres"}
\* [database] of spark.toml: type, name and preseed (user, password and port
\* only fill in the command lines)
DatabaseSections ==
    [type : DbTypes, name : {None, Some("shop")}, preseed : {None, Some("seed.sql")}]

\* match db.r#type.as_str()
ProvisionerIgnoringCase(type) ==
    IF type \in {"postgres", "Postgres"} THEN "setup_postgres"
    ELSE IF type = "mysql" THEN "setup_mysql"
    ELSE IF type = "sqlite" THEN "setup_sqlite"
    ELSE "unsupported"
Provisioner(type) ==
    IF type = "postgres" THEN "setup_postgres"
    ELSE IF type = "mysql" THEN "setup_mysql"
    ELSE IF type = "sqlite" THEN "setup_sqlite"
    ELSE "unsupported"

\* db.name.as_deref().unwrap_or(..)
DefaultDbName(type) ==
    IF type = "postgres" THEN "postgres" ELSE IF type = "mysql" THEN "mysql" ELSE "app.db"
\* format!("spark-{}-db", name)
ContainerName(section) ==
    << "spark-", UnwrapOr(section.name, DefaultDbName(section.type)), "-db" >>
\* the client program the preseed is piped into
PreseedClient(type) ==
    IF type = "postgres" THEN "psql" ELSE IF type = "mysql" THEN "mysql" ELSE "sqlite3"

\* Outcomes of Command::status(): exit 0, another exit code, or no process
CommandOutcomes == {"ok", "nonzero", "spawn_error"}

DbStep(rec) == db' = rec
DbRan(cmd) == Append(db.ran, cmd)
DbSection == Unwrap(db.section)
\* setup_database returns; the handler only logs an Err
DbReturn(rec, result) == [rec EXCEPT !.pc = "persist", !.result = result]

\* The session has launched the application; its manifest may declare a
\* database, and the archive may have carried the preseed file.
DbBegin ==
    /\ db.pc = "idle"
    /\ \E section \in {None} \cup {Some(d) : d \in DatabaseSections}, file \in BOOLEAN :
         DbStep([IdleDb EXCEPT !.pc = IF IsSome(section) THEN "dispatch" ELSE "persist",
                               !.section = section,
                               !.preseedFile = file])
    /\ UNCHANGED << clock, fsvars, static_routes, spawned, probes, lastProbe, sessions,
                    sessvars, succ, clean, lastRollback, racevars, gwvars, wirevars,
                    clientvars, acceptvars, lifevars, fetchvars, appsvars >>

\* setup_database: the match on the type string
DbDispatch ==
    /\ db.pc = "dispatch"
    /\ LET p == Provisioner(DbSection.type)
       IN  DbStep(IF p = "unsupported" THEN DbReturn(db, "error")
                  ELSE IF p = "setup_sqlite" THEN [db EXCEPT !.pc = "create"]
                  ELSE [db EXCEPT !.pc = "stop"])
    /\ UNCHANGED << clock, fsvars, static_routes, spawned, probes, lastProbe, sessions,
                    sessvars, succ, clean, lastRollback, racevars, gwvars, wirevars,
                    clientvars, acceptvars, lifevars, fetchvars, appsvars >>

\* let _ = docker stop {container}
DbStop ==
    /\ db.pc = "stop"
    /\ DbStep([db EXCEPT !.pc = "rm",
                         !.ran = DbRan(<< "docker", "stop", ContainerName(DbSection) >>)])
    /\ UNCHANGED << clock, fsvars, static_routes, spawned, probes, lastProbe, sessions,
                    sessvars, succ, clean, lastRollback, racevars, gwvars, wirevars,
                    clientvars, acceptvars, lifevars, fetchvars, appsvars >>

\* let _ = docker rm {container}
DbRemove ==
    /\ db.pc = "rm"
    /\ DbStep([db EXCEPT !.pc = "run",
                         !.ran = DbRan(<< "docker", "rm", ContainerName(DbSection) >>)])
    /\ UNCHANGED << clock, fsvars, static_routes, spawned, probes, lastProbe, sessions,
                    sessvars, succ, clean, lastRollback, racevars, gwvars, wirevars,
                    clientvars, acceptvars, lifevars, fetchvars, appsvars >>

\* docker run -d --name {container} ..; .status()?; !status.success() bails
DbRun ==
    /\ db.pc = "run"
    /\ \E o \in CommandOutcomes :
         LET rec == [db EXCEPT !.launch = o,
                               !.ran = IF o = "spawn_error" THEN @
                                       ELSE Append(@, << "docker", "run", ContainerName(DbSection) >>)]
         IN  DbStep(IF o = "ok" THEN [rec EXCEPT !.pc = "preseed"]
                    ELSE DbReturn(rec, "error"))
    /\ UNCHANGED << clock, fsvars, static_routes, spawned, probes, lastProbe, sessions,
                    sessvars, succ, clean, lastRollback, racevars, gwvars, wirevars,
                    clientvars, acceptvars, lifevars, fetchvars, appsvars >>

\* setup_sqlite: create the database file unless it exists
DbCreateFile ==
    /\ db.pc = "create"
    /\ \E o \in {"exists", "created", "io_error"} :
         DbStep(IF o = "io_error" THEN DbReturn(db, "error")
                ELSE [db EXCEPT !.pc = "preseed",
                                !.ran = IF o = "created"
                                        THEN Append(@, << "create", "file",
                                                       UnwrapOr(DbSection.name, "app.db") >>)
                                        ELSE @])
    /\ UNCHANGED << clock, fsvars, static_routes, spawned, probes, lastProbe, sessions,
                    sessvars, succ, clean, lastRollback, racevars, gwvars, wirevars,
                    clientvars, acceptvars, lifevars, fetchvars, appsvars >>

\* if let Some(preseed) = &db.preseed { if Path::new(&sql_path).exists() {..} }
\* File::open(..)? and .status()? return the error, a failing client is logged
DbPreseed ==
    /\ db.pc = "preseed"
    /\ IF IsSome(DbSection.preseed) /\ db.preseedFile
       THEN \E o \in CommandOutcomes \cup {"open_error"} :
              DbStep(DbReturn([db EXCEPT !.ran =
                                 IF o \in {"spawn_error", "open_error"} THEN @
                                 ELSE Append(@, << "exec", PreseedClient(DbSection.type),
                                                  Unwrap(DbSection.preseed) >>)],
                              IF o \in {"spawn_error", "open_error"} THEN "error" ELSE "ok"))
       ELSE DbStep(DbReturn(db, "ok"))
    /\ UNCHANGED << clock, fsvars, static_routes, spawned, probes, lastProbe, sessions,
                    sessvars, succ, clean, lastRollback, racevars, gwvars, wirevars,
                    clientvars, acceptvars, lifevars, fetchvars, appsvars >>

\* save_app_state(&app_dir, &state): its Err is logged
DbPersistState ==
    /\ db.pc = "persist"
    /\ \E ok \in BOOLEAN : DbStep([db EXCEPT !.pc = "respond", !.saved = Some(ok)])
    /\ UNCHANGED << clock, fsvars, static_routes, spawned, probes, lastProbe, sessions,
                    sessvars, succ, clean, lastRollback, racevars, gwvars, wirevars,
                    clientvars, acceptvars, lifevars, fetchvars, appsvars >>

\* send_response(&mut socket, "Deployed to ..")
DbRespond ==
    /\ db.pc = "respond"
    /\ DbStep([db EXCEPT !.pc = "done", !.sent = SendResponse(@)])
    /\ UNCHANGED << clock, fsvars, static_routes, spawned, probes, lastProbe, sessions,
                    sessvars, succ, clean, lastRollback, racevars, gwvars, wirevars,
                    clientvars, acceptvars, lifevars, fetchvars, appsvars >>

\* The session is over; the next one can begin.
DbClose ==
    /\ db.pc = "done"
    /\ DbStep(IdleDb)
    /\ UNCHANGED << clock, fsvars, static_routes, spawned, probes, lastProbe, sessions,
                    sessvars, succ, clean, lastRollback, racevars, gwvars, wirevars,
                    clientvars, acceptvars, lifevars, fetchvars, appsvars >>

NextDatabase ==
    \/ DbBegin
    \/ DbDispatch
    \/ DbStop
    \/ DbRemove
    \/ DbRun
    \/ DbCreateFile
    \/ DbPreseed
    \/ DbPersistState
    \/ DbRespond
    \/ DbClose

SpecDatabase == Init /\ [][NextDatabase]_vars


\* ================================================================ claims
Has(e) == \E i \in 1..Len(trace) : trace[i] = e
Ran(stage) == \E i \in 1..Len(trace) : trace[i][1] = stage
Count(stage) == Cardinality({i \in 1..Len(trace) : trace[i][1] = stage})
Decoded == Has(<< "receive", "ok" >>)
Succeeded == pc = "done" /\ sent = << SuccessMessage >>
\* The stages whose failure ends the session with an error response.
FatalStages == {"fetch", "save", "configure"}
\* An outcome the handler only logs.
BestEffortFailure ==
    \/ Has(<< "pre_hook", "fail" >>)
    \/ Has(<< "database", "fail" >>)
    \/ Has(<< "post_hook", "fail" >>)
    \/ lastProbe = "failed"
\* A failure that ends the session.
FatalFailure ==
    \/ ~Decoded
    \/ \E st \in FatalStages : Has(<< st, "fail" >>)
    \/ Has(<< "spawn", "fail" >>)
\* The manifest the session loaded from app_dir/spark.toml.
DiskManifest == Unwrap(toml).m

\* C1: in a run made only of fault-free deploy sessions of the repository
\* (valid archive and manifest, no I/O fault, no rollback), after K >= 1 of
\* them have succeeded the directory holds exactly K-1 entries under
\* versions/ and `current` points at the tree the last one extracted.
C1_VersionsAfterKDeploys ==
    (pc = "idle" /\ clean /\ succ >= 1) =>
        /\ Cardinality(DOMAIN versions) = succ - 1
        /\ current = Some(AppDirPath)
        /\ IsSome(tree)

\* C2: a deploy that finds `current` left by an earlier successful deploy and
\* is given a valid archive moves the previous target into
\* versions/{unix_timestamp}/, extracts the new tree, repoints `current` at
\* it and does not end in 'Save failed'.
C2_RedeployArchivesPrevious ==
    [][(pc = "save" /\ pc' # "save" /\ clean /\ clean' /\ current = Some(AppDirPath))
         => /\ pc' = "configure"
            /\ sent' = sent
            /\ Digits(clock) \in DOMAIN versions'
            /\ versions'[Digits(clock)] = tree
            /\ tree' = Some(sessions)
            /\ current' = Some(AppDirPath)]_vars

\* C3: a session that decoded its DeployRequest has written exactly one
\* framed response when it ends, an error message or the success message,
\* and nothing is written before the last step; a session whose frame was
\* truncated or was not valid JSON ends with no response written.
C3_OneResponse ==
    /\ Len(sent) <= 1
    /\ Len(sent) = 1 => /\ pc = "done"
                        /\ Decoded
                        /\ \/ sent[1] = SuccessMessage
                           \/ \E st \in {"fetch", "save", "configure", "launch"} :
                                sent[1] = ErrorMessage(ErrorText(st))
    /\ pc = "done" => (Len(sent) = 1 <=> Decoded)

C3_Witness == pc = "done" /\ Decoded /\ Has(<< "fetch", "fail" >>) /\ Len(sent) = 1

\* C4: a failure in Fetch, Version & Save or Configure sends the error of
\* that stage (the three texts differ), ends the session, and nothing runs
\* after it: no hook, no route registration, no spawn, no AppState write, no
\* probe scheduling.
C4_FatalStageEndsSession ==
    /\ \A a, b \in FatalStages : a # b => ErrorText(a) # ErrorText(b)
    /\ \A st \in FatalStages :
         Has(<< st, "fail" >>) =>
           /\ pc = "done"
           /\ trace[Len(trace)] = << st, "fail" >>
           /\ sent = << ErrorMessage(ErrorText(st)) >>
           /\ static_routes = routesBefore
           /\ started = None
           /\ \A later \in {"pre_hook", "route", "spawn", "launch", "database",
                            "persist", "monitor", "post_hook", "respond"} : ~Ran(later)

C4_Witness == pc = "done" /\ Has(<< "configure", "fail" >>) /\ Len(sent) = 1


\* C5: a failed pre-deploy hook, database provisioning, health probe or
\* post-deploy hook never aborts the session: a session in which no fatal
\* stage (fetch, save, configure, launch) failed ends with the success
\* response whatever those outcomes were, with the AppState write attempted
\* and, unless the write itself failed, the record on disk 'running'.
C5_BestEffortNeverAborts ==
    (pc = "done" /\ BestEffortFailure /\ ~FatalFailure) =>
        /\ Succeeded
        /\ Ran("persist")
        /\ Has(<< "persist", "ok" >>) =>
             IsSome(stateFile) /\ Unwrap(stateFile).status = "running"

C5_Witness ==
    /\ Succeeded
    /\ Has(<< "pre_hook", "fail" >>)
    /\ Has(<< "database", "fail" >>)
    /\ Has(<< "post_hook", "fail" >>)
    /\ lastProbe = "failed"
    /\ Has(<< "persist", "ok" >>)

\* C6: a session whose manifest declares a build command runs it between
\* the pre-hook and Launch; when the command exits non-zero the session ends
\* with a build-failure error and registers no route, spawns no process and
\* writes no AppState.
C6_BuildFailureAborts ==
    (IsSome(config) /\ Unwrap(config).build = Some("exit 1") /\ Ran("pre_hook")) =>
        /\ ~Ran("route")
        /\ ~Has(<< "spawn", "ok" >>)
        /\ ~Ran("persist")
        /\ pc = "done" => (Len(sent) = 1 /\ sent[1] # SuccessMessage)

\* C7: launch selection of a successful deploy. A web section (alone or
\* with a run section) registers exactly one route, domain -> app_dir/root,
\* leaves every other hostname's route as it was, spawns nothing and yields
\* no pid; a run section alone spawns exactly one process and touches no
\* route; neither section does neither. In all cases the persisted AppState
\* is 'running' and carries a pid in the run-only case alone.
C7_LaunchSelection ==
    Succeeded =>
      LET m == DiskManifest
          web == IsSome(m.web)
          run == IsSome(m.run)
      IN  /\ web =>
               LET d == Unwrap(m.web).domain
                   root == Unwrap(m.web).root
               IN  /\ Count("route") = 1
                   /\ Count("spawn") = 0
                   /\ started = None
                   /\ DOMAIN static_routes = DOMAIN routesBefore \cup {d}
                   /\ static_routes[d] =
                        << "app_dir", IF root = None THEN "." ELSE root[1] >>
                   /\ \A h \in DOMAIN routesBefore \ {d} :
                        static_routes[h] = routesBefore[h]
          /\ (~web /\ run) =>
               /\ Count("spawn") = 1
               /\ Has(<< "spawn", "ok" >>)
               /\ Count("route") = 0
               /\ static_routes = routesBefore
               /\ started = Some(spawned)
          /\ (~web /\ ~run) =>
               /\ Count("spawn") = 0
               /\ Count("route") = 0
               /\ static_routes = routesBefore
               /\ started = None
          /\ Has(<< "persist", "ok" >>) =>
               /\ IsSome(stateFile)
               /\ Unwrap(stateFile).status = "running"
               /\ Unwrap(stateFile).pid = started
               /\ IsSome(Unwrap(stateFile).pid) <=> (run /\ ~web)

C7_Witness ==
    /\ Succeeded
    /\ IsSome(DiskManifest.web)
    /\ IsSome(DiskManifest.run)
    /\ Has(<< "persist", "ok" >>)
    /\ Unwrap(DiskManifest.web).domain \in DOMAIN static_routes

\* C8: the persisted health_url is http://localhost:{p} exactly when the
\* manifest has no health section, auto-health is requested by the request
\* or by the manifest, and run.port = p is declared; a declared health
\* section is persisted as declared; with auto-health requested and no run
\* port the health_url is absent and the deploy still succeeds.
C8_AutoHealth ==
    (pc = "done" /\ Ran("persist")) =>
      LET m == DiskManifest
          auto == msg.auto_health \/ m.auto_health = Some(TRUE)
          port == IF IsSome(m.run) THEN Unwrap(m.run).port ELSE None
      IN  /\ Succeeded
          /\ Has(<< "persist", "ok" >>) =>
               LET hu == Unwrap(stateFile).health_url
               IN  /\ \A p \in Ports :
                        hu = Some(<< "http://localhost:", p >>)
                          <=> (IsNone(m.health) /\ auto /\ port = Some(p))
                   /\ IsSome(m.health) => hu = Some(Unwrap(m.health).url)
                   /\ (IsNone(m.health) /\ auto /\ IsNone(port)) => hu = None

C8_Witness ==
    /\ Succeeded
    /\ Has(<< "persist", "ok" >>)
    /\ IsNone(DiskManifest.health)
    /\ ~msg.auto_health
    /\ Unwrap(stateFile).health_url = Some(<< "http://localhost:", 8080 >>)

\* C9: a session whose AppState write failed never sends the success
\* response.
C9_PersistFailureIsFatal ==
    Has(<< "persist", "fail" >>) => \A i \in 1..Len(sent) : sent[i] # SuccessMessage

\* C10: after a rollback of an application that has at least one entry
\* under versions/, `current` points at the entry whose name is
\* lexicographically greatest (and stays there for as long as no deploy
\* intervenes, however often rollback is repeated).
C10_RollbackSelectsLatest ==
    lastRollback \in {"ok", "err_symlink"} =>
        /\ IsSome(current)
        /\ Len(Unwrap(current)) = 2
        /\ Unwrap(current)[2] \in DOMAIN versions
        /\ \A n \in DOMAIN versions :
             n = Unwrap(current)[2] \/ LexLess(n, Unwrap(current)[2])

\* C11: a rollback that finds the application unknown, or its versions/
\* missing, or versions/ without entries, returns an error to its caller and
\* leaves `current` and versions/ as they were.
C11_RollbackErrorsSurface ==
    [][(/\ rollbacker.pc = "idle"
        /\ rolled' = rolled + 1
        /\ (~(appDir /\ versionsDir) \/ DOMAIN versions = {}))
         => /\ rollbacker'.pc = "idle"
            /\ RollbackReturn(rollbacker'.outcome) = "Err"
            /\ current' = current
            /\ versions' = versions]_vars

\* C12: once a deploy has created `current`, no step of a deploy session
\* leaves a state in which `current` is absent: it always points at the
\* previous or at the new tree.
C12_CurrentNeverAbsent ==
    [][(IsSome(current) /\ rollbacker' = rollbacker) => IsSome(current')]_vars

\* C13: two deploy sessions of the same repository are not mutually
\* excluded: a connection task can enter Version & Save whatever position
\* the other task is in (and so their exists-checks, renames, removals and
\* symlink creations interleave: the witness is a session that was given a
\* valid archive and ended in 'Save failed' on the `current` swap, with no
\* rollback and no third session involved).
C13_SessionsNotExcluded ==
    \A t \in Tasks :
        (deployers[t].pc = "idle" /\ raced < MaxRaceDeploys) => ENABLED BeginSave(t)

C13_Witness ==
    /\ raced = 2
    /\ rolled = 0
    /\ \E t \in Tasks :
         /\ deployers[t].pc = "idle"
         /\ deployers[t].outcome \in {"err_symlink", "err_remove"}
         /\ ~Unwrap(deployers[t].archive).corrupt
    /\ \A t \in Tasks : IsSome(deployers[t].archive)
                          /\ ~Unwrap(deployers[t].archive).corrupt

\* The gateway tasks that hold the read guard, the registrations that hold
\* the write guard.
Reading == {t \in Tasks : requests[t].pc \in {"lookup", "respond"}}
Writing == {t \in Tasks : registrars[t].pc \in {"insert", "release"}}
\* The lookup key the claim names: the Host value up to its first colon.
KeyOf(header) == IF header[1] = ":" THEN "" ELSE header[1]
\* Proxy tables to apply handle_request's decision to (the daemon's own
\* proxy table stays empty).
ProxyTables == UNION {[D -> {3000}] : D \in SUBSET {"site.local", "other.local"}}

\* C14: the routing table sits behind one reader/writer lock: in every state
\* nobody holds it, or only gateway requests hold it for reading, or exactly
\* one route registration holds it for writing; no lookup is in progress
\* while a registration modifies the table.
C14_ReadersOrOneWriter ==
    /\ lock.readers = Cardinality(Reading)
    /\ lock.writer <=> Writing # {}
    /\ Cardinality(Writing) <= 1
    /\ Writing # {} => Reading = {}

C14_Witness ==
    /\ lock.readers = 2
    /\ \E t \in Tasks : registrars[t].pc = "wait_write"
    /\ DOMAIN static_routes # {}

\* C15: the gateway looks up the Host header without its ':port' suffix; a
\* key of the static table is served from the mapped directory (also when
\* the proxy table has it too), else a key of the proxy table gets the
\* 'not implemented' placeholder, else the answer is 404 'domain not
\* configured'.
C15_RoutingDecision ==
    /\ \A t \in Tasks :
         requests[t].pc = "respond" =>
           LET key == KeyOf(requests[t].header)
               r == Unwrap(requests[t].response)
           IN  /\ requests[t].hostname = key
               /\ IF key \in DOMAIN static_routes
                  THEN r.kind = "static" /\ r.dir = Some(static_routes[key])
                  ELSE r.kind = "not_found"
    /\ \A h \in HostHeaders, proxy \in ProxyTables :
         LET key == KeyOf(h)
             r == HandleRequest(static_routes, proxy, StripPort(h))
         IN  /\ key \in DOMAIN static_routes =>
                  r.kind = "static" /\ r.dir = Some(static_routes[key])
             /\ (key \notin DOMAIN static_routes /\ key \in DOMAIN proxy) =>
                  r.kind = "not_implemented" /\ r.port = Some(proxy[key])
             /\ (key \notin DOMAIN static_routes /\ key \notin DOMAIN proxy) =>
                  r.kind = "not_found"

C15_Witness ==
    \E t \in Tasks :
        /\ requests[t].pc = "respond"
        /\ requests[t].header = << "site.local", ":", "9999" >>
        /\ Unwrap(requests[t].response).kind = "static"
        /\ \E o \in Tasks : /\ requests[o].pc = "respond"
                            /\ Unwrap(requests[o].response).kind = "not_found"

\* C16: registration is last-writer-wins per hostname: the static route of
\* a hostname is the document root of the most recent registration of that
\* hostname, whichever repository made it, and a registration leaves the
\* entries of the other hostnames as they were.
C16_LastWriterWins == static_routes = lastReg

C16_Witness ==
    \E t \in Tasks :
        /\ registrars[t].pc = "release"
        /\ IsSome(registrars[t].prev)
        /\ Unwrap(registrars[t].prev)[1] # registrars[t].path[1]
        /\ static_routes[registrars[t].domain] = registrars[t].path
        /\ \E h \in DOMAIN static_routes : h # registrars[t].domain

\* The bytes send_message writes for a sequence of payloads.
RECURSIVE StreamOf(_)
StreamOf(frames) ==
    IF Len(frames) = 0 THEN << >> ELSE Frame(Head(frames)) \o StreamOf(Tail(frames))
\* The recv_message calls that returned a payload.
Delivered == {i \in 1..Len(received) : received[i].status = "ok"}

\* C17: framing round-trip. recv_message on the bytes send_message wrote
\* for a payload returns that payload and leaves nothing; on a stream of
\* several frames the calls return the payloads in the order sent, each
\* whole, and the bytes still in flight are exactly the frames not yet
\* received.
C17_FramingRoundTrip ==
    /\ \A data \in Payloads :
         RecvMessage(Frame(data), "open") =
           [status |-> "ok", payload |-> data, left |-> 0, rest |-> << >>]
    /\ Len(received) <= Len(framesSent) + 1
    /\ \A i \in Delivered : i <= Len(framesSent) /\ received[i].payload = framesSent[i]
    /\ wireEnd # "severed" =>
         /\ Delivered = 1..Cardinality(Delivered)
         /\ wire = StreamOf(SubSeq(framesSent, Cardinality(Delivered) + 1, Len(framesSent)))
         /\ Cardinality(Delivered) < Len(framesSent) =>
              LET r == RecvMessage(wire, wireEnd)
              IN  /\ r.status = "ok"
                  /\ r.payload = framesSent[Cardinality(Delivered) + 1]
                  /\ r.rest = StreamOf(SubSeq(framesSent, Cardinality(Delivered) + 2,
                                              Len(framesSent)))

C17_Witness ==
    /\ Len(framesSent) = 2
    /\ Len(framesSent[1]) = 0
    /\ Len(framesSent[2]) = 2
    /\ Cardinality(Delivered) = 2
    /\ Len(received) = 2
    /\ wire = << >>

\* C18: when the stream ends before the 4-byte prefix is complete, or
\* before as many payload bytes as the prefix announces have arrived,
\* recv_message returns an error: it never returns a payload shorter than
\* the one sent.
C18_TruncationIsAnError ==
    /\ (wireEnd # "open" /\ Len(wire) < 4) => RecvMessage(wire, wireEnd).status = "err"
    /\ (wireEnd # "open" /\ Len(wire) >= 4
          /\ Len(wire) - 4 < FromBeBytes(SubSeq(wire, 1, 4))) =>
         RecvMessage(wire, wireEnd).status = "err"
    /\ \A i \in Delivered : i <= Len(framesSent) /\ received[i].payload = framesSent[i]
    /\ wireEnd = "severed" => Cardinality(Delivered) < Len(framesSent)

C18_Witness ==
    /\ wireEnd = "severed"
    /\ Len(received) = 2
    /\ received[1].status = "ok"
    /\ received[2].status = "err"
    /\ received[2].left = 5
    /\ Len(framesSent[2]) = 2

\* The value of a label that is a decimal octet.
OctetValue ==
    [l \in {"0", "1", "5", "8", "9", "10", "15", "16", "31", "32", "127", "168", "169",
            "172", "192"} |->
       CASE l = "0" -> 0 [] l = "1" -> 1 [] l = "5" -> 5 [] l = "8" -> 8 [] l = "9" -> 9
         [] l = "10" -> 10 [] l = "15" -> 15 [] l = "16" -> 16 [] l = "31" -> 31
         [] l = "32" -> 32 [] l = "127" -> 127 [] l = "168" -> 168 [] l = "169" -> 169
         [] l = "172" -> 172 [] l = "192" -> 192]
\* The host is an IPv4 address of 127.*, 10.*, 172.16.* - 172.31.* or 192.168.*.
InPrivateRange(host) ==
    /\ Len(host) = 4
    /\ \A i \in 1..4 : host[i] \in DOMAIN OctetValue
    /\ LET a == OctetValue[host[1]]
           b == OctetValue[host[2]]
       IN  \/ a = 127
           \/ a = 10
           \/ a = 172 /\ b >= 16 /\ b <= 31
           \/ a = 192 /\ b = 168

\* C19: the client puts the deploy request on TLS for every target host,
\* with verification disabled for a local target and against the root store
\* for any other; it never sends the request in plain TCP to the daemon,
\* which always starts with a TLS accept.
C19_RequestAlwaysOnTls ==
    client.requestSent =>
        /\ client.transport = "tls"
        /\ client.verify = Some(~IsLocalNetwork(client.host))

\* C20: is_local_network depends on the host alone, is true for the
\* addresses of 127.*, 10.*, 172.16.*-172.31.*, 192.168.* and for
\* 'localhost', false for every other host, and its two copies agree.
C20_LocalityClassification ==
    client.pc # "idle" =>
        /\ IsLocalNetwork(client.host) = TlsIsLocalNetwork(client.host)
        /\ IsLocalNetwork(client.host)
             <=> (InPrivateRange(client.host) \/ client.host = << "localhost" >>)
        /\ (client.pc # "connected" /\ client.result # "err_connect") =>
              client.use_tls = IsLocalNetwork(client.host)

\* The three custom sources as the claim words them.
InlineAvailable(env) == env.cert_env /\ env.key_env
FilesAvailable(env) ==
    env.cert_file_env /\ env.key_file_env /\ env.cert_file_reads /\ env.key_file_reads
WellKnownAvailable(env) == env.wk_cert_reads /\ env.wk_key_reads

\* C21: the daemon selects its TLS credentials in strict priority order:
\* the inline pair when both variables are set; else the files the
\* environment names when both variables are set and both files read; else
\* the well-known pair when both files read; else a generated self-signed
\* certificate. A lower source is used only when every higher one is
\* unavailable, and with no source at all the accept goes on with the
\* self-signed certificate.
C21_CertificatePriority ==
    /\ \A env \in CertEnvs :
         LET src == LoadCustomCerts(env)
         IN  /\ src = Some("env_inline") <=> InlineAvailable(env)
             /\ src = Some("env_files") <=> (~InlineAvailable(env) /\ FilesAvailable(env))
             /\ src = Some("well_known") <=>
                  (~InlineAvailable(env) /\ ~FilesAvailable(env) /\ WellKnownAvailable(env))
             /\ src = None <=>
                  ~(InlineAvailable(env) \/ FilesAvailable(env) \/ WellKnownAvailable(env))
    /\ IsSome(listener.env) =>
         LET env == Unwrap(listener.env)
             any == InlineAvailable(env) \/ FilesAvailable(env) \/ WellKnownAvailable(env)
         IN  /\ IsSome(listener.cert) =>
                  /\ listener.cert = Some("self_signed") <=> ~any
                  /\ listener.cert = Some("env_inline") <=> InlineAvailable(env)
                  /\ listener.cert = Some("env_files") =>
                       (~InlineAvailable(env) /\ FilesAvailable(env))
                  /\ listener.cert = Some("well_known") =>
                       (~InlineAvailable(env) /\ ~FilesAvailable(env)
                          /\ WellKnownAvailable(env))
             /\ ~any => IsSome(listener.cert)

C21_Witness ==
    /\ listener.pc = "session"
    /\ listener.cert = Some("well_known")
    /\ IsSome(listener.env)
    /\ Unwrap(listener.env).cert_env
    /\ ~Unwrap(listener.env).key_env
    /\ Unwrap(listener.env).cert_file_env
    /\ Unwrap(listener.env).key_file_env
    /\ ~Unwrap(listener.env).key_file_reads

\* A connection that has stopped making progress: its peer never starts the
\* TLS handshake, or its session hangs in a fetch or in a wait.
Stalled(c) ==
    \/ conns[c].pc = "handshake" /\ conns[c].behaviour = "silent"
    \/ conns[c].stalled
\* The connection has been accepted and its session started.
SessionStarted(c) == conns[c].pc \notin {"none", "queued", "handshake"}

\* C22: a stalled connection never keeps the listener from accepting
\* another one: a valid client that connects while some other connection is
\* stalled (in its TLS handshake, its fetch or a wait) is eventually accepted
\* and its session started, for as long as accept() itself does not fail.
C22_StallDoesNotBlockAccept ==
    \A c \in Conns :
        (/\ conns[c].pc = "queued"
         /\ conns[c].behaviour = "valid"
         /\ \E o \in Conns \ {c} : Stalled(o))
          ~> (SessionStarted(c) \/ acceptLoop.pc = "returned")

\* The ways a connection ends without the success response.
FailureResults == {"handshake_failed", "no_response", "error"}
\* A step in which connection c ends in a failure.
Fails(c) ==
    /\ conns[c].pc # "closed"
    /\ conns'[c].pc = "closed"
    /\ conns'[c].result \in FailureResults

\* C23: no per-connection failure stops the daemon: the step in which a
\* connection fails (TLS handshake, malformed request, a pipeline stage)
\* leaves the accept loop running, the loop ends only in a step that is
\* accept()'s own error, and connections made after such failures are still
\* accepted and served.
C23_FailuresLeaveLoopRunning ==
    [][/\ \A c \in Conns : Fails(c) => acceptLoop'.pc \in {"accept", "accept_tls"}
       /\ (acceptLoop.pc # "returned" /\ acceptLoop'.pc = "returned") =>
            (acceptLoop.pc = "accept" /\ conns' = conns)]_vars

C23_Witness ==
    \E c \in Conns :
        /\ conns[c].pc = "closed"
        /\ conns[c].result = "success"
        /\ conns[c].before = {"handshake_failed", "no_response"}
        /\ acceptLoop.pc = "accept"

\* The stages of handle_deploy_request in the order the claim gives them
\* (the frame is read before them).
StageOrder ==
    << "receive", "fetch", "save", "configure", "pre_hook", "launch", "database",
       "persist", "monitor", "post_hook", "respond" >>
\* The stage a trace entry belongs to: Launch is logged as the route it
\* registered, the process it spawned, or nothing to launch.
StageOf(e) == IF e[1] \in {"route", "spawn", "launch"} THEN "launch" ELSE e[1]

\* C24: the stages of a session run in the fixed order Fetch, Version &
\* Save, Configure, Pre-hook, Launch, Database, Persist State, Monitor,
\* Post-hook, Respond: when the success response is sent, the route
\* registration or the spawn, the AppState write and the post-deploy hook of
\* the session have been executed, and a gateway lookup of the deployed
\* domain finds the new route.
C24_StageOrder ==
    /\ Len(trace) <= Len(StageOrder)
    /\ \A i \in 1..Len(trace) : StageOf(trace[i]) = StageOrder[i]
    /\ Len(sent) = 1 /\ sent[1] = SuccessMessage =>
         /\ Len(trace) = Len(StageOrder)
         /\ LET m == DiskManifest
            IN  /\ IsSome(m.web) =>
                     /\ trace[6] = << "route", Unwrap(m.web).domain >>
                     /\ HandleRequest(static_routes, proxy_routes, Unwrap(m.web).domain)
                          = ServeStatic(RootPath(Unwrap(m.web).root))
                /\ (IsNone(m.web) /\ IsSome(m.run)) => trace[6] = << "spawn", "ok" >>
                /\ IsSome(PostDeployHook(m)) => trace[10][2] \in {"ok", "fail"}

C24_Witness ==
    /\ Succeeded
    /\ IsSome(DiskManifest.web)
    /\ Has(<< "database", "ok" >>)
    /\ Has(<< "post_hook", "ok" >>)
    /\ Has(<< "persist", "ok" >>)
    /\ sessions = 1

\* C25: lifecycle operations on an application that has a state record, when
\* no system call of the operation fails: start writes nothing when the
\* status is 'running' and otherwise persists the record with status
\* 'running'; stop signals the recorded pid, if one is recorded, and then
\* persists status 'stopped'; restart signals the recorded pid, if one is
\* recorded, and then persists status 'running'; with no recorded pid no
\* signal is sent, and start never signals.
C25_LifecycleOperations ==
    IsSome(lifecycle.loaded) =>
      LET before == Unwrap(lifecycle.loaded)
          a == lifecycle.action
          pids == IF IsSome(before.pid) /\ a # "start" THEN << Unwrap(before.pid) >>
                  ELSE << >>
      IN  /\ lifecycle.pc = "kill" => (lifecycle.written = None /\ lifecycle.signalled = << >>)
          /\ lifecycle.pc = "save" => (lifecycle.written = None /\ lifecycle.signalled = pids)
          /\ lifecycle.signalled \in {<< >>, pids}
          /\ (lifecycle.pc = "exit" /\ lifecycle.result = "Ok") =>
               /\ lifecycle.signalled = pids
               /\ IF a = "start" /\ before.status = "running"
                  THEN lifecycle.written = None
                  ELSE lifecycle.written =
                         Some([before EXCEPT
                                 !.status = IF a = "stop" THEN "stopped" ELSE "running"])
          /\ (lifecycle.pc = "exit" /\ lifecycle.result # "Ok") => lifecycle.written = None

C25_Witness ==
    /\ lifecycle.pc = "exit"
    /\ lifecycle.action = "restart"
    /\ lifecycle.result = "Ok"
    /\ IsSome(lifecycle.loaded)
    /\ Unwrap(lifecycle.loaded).status = "stopped"
    /\ lifecycle.signalled = << 4242 >>
    /\ stateFile = lifecycle.written
    /\ Unwrap(stateFile).status = "running"

\* C26: start, stop and restart on an application without a state record
\* return the 'App not found' error, send no signal and write no file.
C26_UnknownApplication ==
    [][(lifecycle.pc = "load" /\ lifecycle'.pc # "load" /\ IsNone(stateFile)) =>
         /\ lifecycle' = [IdleLifecycle EXCEPT !.pc = "exit", !.action = lifecycle.action,
                                               !.result = "App not found",
                                               !.last = lifecycle.last]
         /\ stateFile' = stateFile]_vars

C26_Witness ==
    /\ lifecycle.pc = "exit"
    /\ lifecycle.action = "stop"
    /\ lifecycle.result = "App not found"
    /\ stateFile = None

\* C27: the fetch request. The URL is the GitHub tarball URL of branch main
\* exactly when forge is the sentinel 'github', and {forge}/{repo}/archive
\* otherwise; credentials are attached only when user and password are both
\* present, as Bearer(password) for 'github' and Basic(user, password)
\* otherwise; a response that is not 2xx ends the session with the
\* 'Download failed' error.
C27_FetchRequest ==
    /\ IsSome(fetch.request) =>
         LET m == Unwrap(fetch.msg)
             r == Unwrap(fetch.request)
             tarball_main == << "https://api.github.com/repos/", m.repo, "/tarball/main" >>
         IN  /\ r.url = tarball_main <=> m.forge = "github"
             /\ m.forge # "github" => r.url = << m.forge, "/", m.repo, "/archive" >>
             /\ IsSome(r.auth) <=> (IsSome(m.auth_user) /\ IsSome(m.auth_password))
             /\ IsSome(r.auth) =>
                  LET a == Unwrap(r.auth)
                  IN  /\ a.secret = m.auth_password
                      /\ IF m.forge = "github"
                         THEN a.scheme = "Bearer" /\ a.user = None
                         ELSE a.scheme = "Basic" /\ a.user = m.auth_user
    /\ fetch.pc = "ended" =>
         IF IsSome(fetch.status) /\ Unwrap(fetch.status) \in 200..299
         THEN fetch.out = << >> /\ fetch.next = "save"
         ELSE fetch.out = << << "Error: ", "Download failed" >> >> /\ fetch.next = "done"

C27_Witness ==
    /\ fetch.pc = "ended"
    /\ Unwrap(fetch.msg).forge = "github"
    /\ Unwrap(fetch.request).auth =
         Some([scheme |-> "Bearer", user |-> None, secret |-> Some("s3cret")])
    /\ fetch.status = Some(302)
    /\ Len(fetch.out) = 1

\* C28: health monitoring is one-shot. A session that reaches Monitor
\* schedules one delayed probe when its configuration has a health URL
\* (declared or synthesized) and none otherwise, and it reaches Monitor only
\* after Persist State; a probe runs once and schedules nothing, so the
\* probes pending never exceed one per session that scheduled one.
C28_OneShotProbe ==
    /\ Count("monitor") <= 1
    /\ Ran("monitor") =>
         /\ Ran("persist")
         /\ Has(<< "monitor", "scheduled" >>) <=> IsSome(Unwrap(config).health)
         /\ Has(<< "monitor", "skip" >>) <=> IsNone(Unwrap(config).health)
    /\ (pc = "done" /\ ~Ran("persist")) => ~Ran("monitor")
    /\ probes <= IF pc = "idle" THEN sessions
                 ELSE (sessions - 1) + Count("monitor") - Cardinality({i \in 1..Len(trace) :
                                                            trace[i] = << "monitor", "skip" >>})

C28_Witness ==
    /\ Succeeded
    /\ Has(<< "monitor", "scheduled" >>)
    /\ IsNone(DiskManifest.health)
    /\ probes = 0
    /\ lastProbe = "failed"

\* C29: entries under versions/ are immutable once created: no step of a
\* deploy or of a rollback removes, renames or overwrites an existing entry
\* or changes what it holds; deploys only add entries.
C29_VersionsImmutable ==
    [][\A n \in DOMAIN versions :
         n \in DOMAIN versions' /\ versions'[n] = versions[n]]_vars

\* What one session of application a leaves behind when it runs alone, from
\* the state `start` it found, given the archive it fetched, the second it
\* read the clock in and whether its AppState write succeeded.
SessionAlone(a, start, archive, now, persisted) ==
    LET r == SaveAndExtract(start.fs, now, archive)
        t == r.fs.toml
    IN  IF ~r.ok
        THEN [fs |-> r.fs, stateFile |-> start.stateFile, route |-> start.route,
              sent |-> << ErrorMessage("Save failed") >>]
        ELSE IF ~(IsSome(t) /\ Unwrap(t).valid)
        THEN [fs |-> r.fs, stateFile |-> start.stateFile, route |-> start.route,
              sent |-> << ErrorMessage("Config load failed") >>]
        ELSE LET m == Unwrap(t).m
             IN  [fs |-> r.fs,
                  stateFile |-> IF persisted = Some(TRUE)
                                THEN Some(BuildAppState(m, None)) ELSE start.stateFile,
                  route |-> Some(<< a, UnwrapOr(Unwrap(m.web).root, ".") >>),
                  sent |-> << SuccessMessage >>]

\* C30: deploy sessions of different applications do not interfere. For
\* two applications with different directories and different web domains,
\* however the stages of their sessions interleave, each session leaves its
\* application's `current`, versions/, AppState and route as it would have
\* left them running alone.
C30_ApplicationsIndependent ==
    \A a \in Apps :
        (apps[a].pc = "idle" /\ IsSome(apps[a].start)) =>
          LET alone == SessionAlone(a, Unwrap(apps[a].start), Unwrap(apps[a].archive),
                                    Unwrap(apps[a].now), apps[a].persisted)
          IN  /\ apps[a].fs = alone.fs
              /\ apps[a].stateFile = alone.stateFile
              /\ apps[a].sent = alone.sent
              /\ alone.route = IF DomainOf[a] \in DOMAIN static_routes
                               THEN Some(static_routes[DomainOf[a]]) ELSE None

C30_Witness ==
    /\ \A a \in Apps : /\ apps[a].pc = "idle"
                        /\ apps[a].deploys = 1
                        /\ apps[a].sent = << SuccessMessage >>
                        /\ apps[a].fs.current = Some(AppDirPath)
    /\ apps["acme_site"].fs.tree = Some(<< "acme_site", 1 >>)
    /\ apps["acme_blog"].fs.tree = Some(<< "acme_blog", 1 >>)
    /\ DOMAIN static_routes = {"site.local", "blog.local"}

\* ---------------------------------------------------------------- C31
DbDispatched == db.pc \notin {"idle", "dispatch"} /\ IsSome(db.section)
DbReturned == db.pc \in {"persist", "respond", "done"} /\ IsSome(db.section)
DbCommand(i) == << db.ran[i][1], db.ran[i][2] >>
DbLaunched(i) == DbCommand(i) = << "docker", "run" >>

\* C31: provisioning is dispatched on the declared type. Another type than
\* postgres, mysql and sqlite is an error with no command run and no file
\* created; for postgres and mysql the stop and the remove of the container
\* of the same name come before its launch; the preseed is streamed only
\* after a successful launch (for sqlite: after the file step) and only if
\* the preseed is declared and its file exists; a failed launch is an
\* error. After an error the session still calls save_app_state and sends
\* the success response.
C31_DatabaseProvisioning ==
    DbDispatched =>
      LET d == DbSection
          container == d.type \in {"postgres", "mysql"}
      IN  /\ d.type \notin {"postgres", "mysql", "sqlite"} =>
                db.ran = << >> /\ db.result = "error" /\ db.launch = "none"
          /\ d.type = "sqlite" =>
                \A i \in DOMAIN db.ran : db.ran[i][1] \in {"create", "exec"}
          /\ \A i \in DOMAIN db.ran :
                /\ DbLaunched(i) =>
                      /\ container /\ i = 3
                      /\ db.ran[1] = << "docker", "stop", db.ran[i][3] >>
                      /\ db.ran[2] = << "docker", "rm", db.ran[i][3] >>
                /\ db.ran[i][1] = "exec" =>
                      /\ d.preseed = Some(db.ran[i][3]) /\ db.preseedFile
                      /\ db.ran[i][2] = PreseedClient(d.type)
                      /\ container => (i = 4 /\ DbLaunched(3) /\ db.launch = "ok")
          /\ (DbReturned /\ container /\ db.launch # "ok") => db.result = "error"
          /\ (db.pc = "done" /\ db.result = "error") =>
                IsSome(db.saved) /\ db.sent = << SuccessMessage >>

C31_Witness ==
    /\ db.pc = "done"
    /\ IsSome(db.section) /\ DbSection.type = "mysql" /\ DbSection.preseed = Some("seed.sql")
    /\ db.launch = "nonzero"
    /\ Len(db.ran) = 3
    /\ db.result = "error"
    /\ db.saved = Some(TRUE)
    /\ db.sent = << SuccessMessage >>

\* ---------------------------------------------------------------- C32
\* C32: distinct repository identifiers map to distinct application
\* directories: no two sessions for different repositories work in the same
\* directory (and so on the same `current`, versions/ and AppState).
C32_DistinctDirectories ==
    \A p, q \in fetch.dirs : p.repo # q.repo => p.app_dir # q.app_dir

\* ---------------------------------------------------------------- C33
\* C33: a lifecycle operation that interleaves with a deploy of the same
\* application does not lose the deploy's update: the record the operation
\* writes carries the version, pid, port and health URL that are in the
\* AppState file when it writes, not the ones it loaded earlier.
C33_DeployUpdateSurvives ==
    [][(lifecycle.pc = "save" /\ stateFile' # stateFile) =>
         /\ Unwrap(stateFile').version = Unwrap(stateFile).version
         /\ Unwrap(stateFile').pid = Unwrap(stateFile).pid
         /\ Unwrap(stateFile').port = Unwrap(stateFile).port
         /\ Unwrap(stateFile').health_url = Unwrap(stateFile).health_url]_vars

\* ---------------------------------------------------------------- C34
FrameFields == {"version", "pid", "port", "health_url", "isolation"}
\* the running call loaded the record the previous call wrote
FollowsLast ==
    /\ IsSome(lifecycle.last) /\ IsSome(lifecycle.loaded)
    /\ Unwrap(lifecycle.last).written = lifecycle.loaded

\* C34: start, stop and restart change only the status of the record:
\* what they write equals what they loaded in every other field, so the
\* pid stays recorded after stop and restart, and a stop or restart that
\* follows signals that same pid again.
C34_OnlyStatusChanges ==
    /\ IsSome(lifecycle.written) =>
          /\ \A f \in FrameFields :
                Unwrap(lifecycle.written)[f] = Unwrap(lifecycle.loaded)[f]
          /\ DOMAIN Unwrap(lifecycle.written) = DOMAIN Unwrap(lifecycle.loaded)
    /\ (FollowsLast /\ lifecycle.pc \in {"save", "exit"} /\ lifecycle.action # "start"
          /\ lifecycle.result \in {"none", "Ok"}) =>
          LET prev == Unwrap(lifecycle.last)
          IN  /\ prev.signalled # << >> => lifecycle.signalled = prev.signalled
              /\ IsSome(Unwrap(prev.written).pid) =>
                    lifecycle.signalled = << Unwrap(Unwrap(prev.written).pid) >>

C34_Witness ==
    /\ FollowsLast
    /\ Unwrap(lifecycle.last).action = "stop"
    /\ Unwrap(lifecycle.last).signalled = << 4242 >>
    /\ lifecycle.action = "restart"
    /\ lifecycle.pc = "exit" /\ lifecycle.result = "Ok"
    /\ lifecycle.signalled = << 4242 >>
    /\ Unwrap(stateFile).pid = Some(4242)
    /\ Unwrap(stateFile).status = "running"
    /\ stateFile = lifecycle.written

\* ---------------------------------------------------------------- C35
\* The session's Configure or Launch stage has failed.
FailedLate ==
    \E i \in 1..Len(trace) : trace[i][2] = "fail" /\ trace[i][1] \in {"configure", "spawn"}
\* What a session can leave behind: the directory, AppState, the routes.
Durable == << appDir, tree, toml, current, versionsDir, versions, stateFile, static_routes >>

\* C35: a deploy that fails at Configure or at Launch writes no AppState
\* and registers no route, and does not undo its Save stage: at the failing
\* step and from then on the session changes nothing under the application
\* directory, `current` still points at the tree it extracted, versions/
\* is as the Save stage left it, and the session's only frame is the error.
C35_LateFailureKeepsSave ==
    [][IF FailedLate
       THEN UNCHANGED Durable /\ (sent' = sent \/ sent' = << >>)
       ELSE FailedLate' =>
              /\ pc \in {"configure", "launch"}
              /\ UNCHANGED Durable
              /\ static_routes = routesBefore
              /\ current = Some(AppDirPath) /\ tree = Some(sessions)
              /\ sent = << >> /\ Len(sent') = 1 /\ sent'[1] # SuccessMessage]_vars

C35_Witness ==
    /\ pc = "done"
    /\ Has(<< "spawn", "fail" >>)
    /\ sent = << ErrorMessage("Start failed") >>
    /\ current = Some(AppDirPath) /\ tree = Some(sessions)
    /\ DOMAIN versions # {}
    /\ static_routes = routesBefore

\* ---------------------------------------------------------------- C36
\* A step of `spark rollback`: between sessions, and neither a new
\* session, nor the clock, nor a health probe.
RollbackStep ==
    /\ pc = "idle" /\ pc' = "idle"
    /\ sessions' = sessions /\ clock' = clock /\ probes' = probes

\* C36: rollback changes only the `current` symlink: the AppState record,
\* every entry of versions/ and every gateway route are the same after it,
\* and so is the directory the gateway serves for the application's
\* domain.
C36_RollbackChangesOnlyCurrent ==
    [][RollbackStep =>
         UNCHANGED << stateFile, versions, versionsDir, appDir, tree, toml,
                      static_routes >>]_vars

C36_Witness ==
    /\ lastRollback = "ok"
    /\ current = Some(VersionPath(LatestBackup(versions)))
    /\ IsSome(stateFile) /\ Unwrap(stateFile).version = "0.1.0"
    /\ "site.local" \in DOMAIN static_routes
    /\ static_routes["site.local"] = RootPath(Some("dist"))

\* ---------------------------------------------------------------- C37
Persistable == {"running", "stopped"}

\* C37: a health probe changes no durable state, whatever its outcome, and
\* no operation (deploy, probe, start, stop, restart, rollback) writes the
\* status 'failed': the status in the AppState file is always 'running' or
\* 'stopped'.
C37_StatusNeverFailed ==
    [][/\ probes' < probes =>
            UNCHANGED << appDir, tree, toml, current, versionsDir, versions, stateFile,
                         static_routes >>
       /\ IsSome(stateFile') => Unwrap(stateFile').status \in Persistable]_vars

C37_Witness ==
    /\ lastProbe = "failed" /\ probes = 0
    /\ lastRollback # "none"
    /\ IsSome(stateFile) /\ Unwrap(stateFile).status = "running"
    /\ IsSome(Unwrap(stateFile).health_url)
    /\ lifecycle.pc = "exit" /\ lifecycle.action = "start" /\ lifecycle.result = "Ok"
    /\ lifecycle.written = stateFile
    /\ IsSome(lifecycle.last) /\ Unwrap(lifecycle.last).action = "stop"

\* ---------------------------------------------------------------- C38
\* C38: the routing table only grows. No step removes a static route (a
\* registration adds its hostname or replaces that hostname's path), the
\* proxy table is empty in every state, and no gateway request is answered
\* with the 'not implemented' proxy placeholder.
C38_RoutesOnlyGrow ==
    [][/\ DOMAIN static_routes \subseteq DOMAIN static_routes'
       /\ DOMAIN proxy_routes = {}
       /\ \A t \in Tasks :
            IsSome(requests'[t].response) =>
              Unwrap(requests'[t].response).kind \in {"static", "not_found"}]_vars

C38_Witness ==
    /\ DOMAIN static_routes = {"site.local", "blog.local"}
    /\ static_routes["site.local"] = RootPathIn("acme_blog", None)
    /\ \E t \in Tasks : /\ requests[t].pc = "respond"
                         /\ requests[t].hostname = "site.local"
                         /\ requests[t].response =
                              Some(ServeStatic(RootPathIn("acme_blog", None)))
    /\ \E t \in Tasks : /\ requests[t].pc = "respond"
                         /\ requests[t].hostname = "other.local"
                         /\ requests[t].response = Some(NotConfigured)

\* ---------------------------------------------------------------- C39
\* A gateway request is between taking the read lock and returning.
InFlight(t) == requests[t].pc \in {"lookup", "respond"}
\* A registration holds the write lock.
Registering(t) == registrars[t].pc \in {"insert", "release"}

\* C39: a gateway request holds the read lock until its response has been
\* produced, so no route registration holds the write lock (or has
\* completed its insert) while a request is in flight; and, in-flight
\* requests finishing, every registration that waits for the write lock
\* eventually acquires it.
C39_RegistrationWaitsForRequests ==
    /\ [](\A t \in Tasks :
            InFlight(t) => (lock.readers >= 1 /\ \A r \in Tasks : ~Registering(r)))
    /\ \A r \in Tasks : (registrars[r].pc = "wait_write") ~> Registering(r)

C39_Witness ==
    /\ registrars[1].pc = "wait_write"
    /\ lock.queue = << << "write", 1 >>, << "read", 2 >> >>
    /\ requests[1].pc = "respond"
    /\ IsSome(requests[1].response) /\ Unwrap(requests[1].response).kind = "static"
    /\ requests[2].pc = "wait_read"
    /\ lock.readers = 1

\* ---------------------------------------------------------------- C40
\* C40: the deploy client does not tell success from failure responses.
\* run_deploy returns Ok exactly when it received one whole response
\* frame, the success message or an error message alike, and Err exactly
\* when connecting, the handshake, the send or the receive failed.
C40_ClientIgnoresResponseText ==
    client.pc = "done" =>
        /\ IsSome(client.response) =>
              (client.returned = "Ok" /\ Unwrap(client.response) \in SessionResponses)
        /\ IsNone(client.response) =>
              /\ client.returned = "Err"
              /\ client.result \in {"err_connect", "err_tls", "err_send", "err_closed"}

C40_Witness ==
    /\ client.pc = "done"
    /\ client.transport = "tls"
    /\ client.response = Some(ErrorMessage("Save failed"))
    /\ client.returned = "Ok"

====
